---------------------------- MODULE Spec2Model ----------------------------
(***************************************************************************)
(* katpoint: the numerical correction and projection engine                *)
(*   katpoint/projection.py   spherical projections SIN, TAN, ARC, STG     *)
(*   katpoint/correction.py   RefractionCorrection and PointingModel       *)
(*                                                                         *)
(* Number representation.  The code computes in IEEE doubles; the model    *)
(* computes in fixed point:                                                *)
(*   - an angle is an integer number of milli-arcseconds (mas), so that    *)
(*     the code's tolerances (0.01 arcsec = 10 mas, 1 arcsec = 1000 mas)   *)
(*     are whole numbers;                                                  *)
(*   - a dimensionless quantity (a sine, a plane coordinate, a Jacobian    *)
(*     entry, a scale factor) is an integer number of millionths (TS);     *)
(*   - the corrections, whose terms are multiplied by sec(el) and tan(el)  *)
(*     of up to 85 and 89 degrees, compute their sines, powers and         *)
(*     parameters in units of 1e-8 (HS).                                   *)
(* Every product and quotient is rounded to the nearest unit, as a double  *)
(* operation is rounded to the nearest representable value.                *)
(*                                                                         *)
(* A value the code keeps in a local variable and uses more than once is   *)
(* passed on as the argument of a continuation operator (named after the   *)
(* function, with a suffix), so that it is computed once.                  *)
(***************************************************************************)
EXTENDS Integers, Sequences, FiniteSets, TLC

---------------------------------------------------------------------------
(* Fixed-point arithmetic *)

\* one unit of a dimensionless quantity is 1/TS
TS == 1000 * 1000

\* angles, in mas
ARCSEC == 1000
DEG == 3600 * ARCSEC
DEG45 == 45 * DEG
DEG90 == 90 * DEG
DEG180 == 180 * DEG
DEG360 == 360 * DEG

\* what an IEEE division by zero returns (inf), within the model's range
HUGE == 1000 * TS

Abs(a) == IF a < 0 THEN -a ELSE a

\* numpy.sign
Sign(a) == IF a < 0 THEN -1 ELSE IF a > 0 THEN 1 ELSE 0

Max(a, b) == IF a >= b THEN a ELSE b

Min(a, b) == IF a <= b THEN a ELSE b

\* numpy.clip
Clip(a, lo, hi) == Max(lo, Min(a, hi))

\* a / n rounded to the nearest integer (n > 0)
RDiv(a, n) == (2 * a + n) \div (2 * n)

\* floor((a * b + r) / TS) for 0 <= r < TS, on base-1000 limbs (no 32-bit
\* overflow)
MulLimbs(a, b, r) ==
    (a \div 1000) * (b \div 1000)
    + (((a \div 1000) * (b % 1000) + (a % 1000) * (b \div 1000)
        + (((a % 1000) * (b % 1000) + r) \div 1000)) \div 1000)

\* the product a * b of two numbers, one of them dimensionless, rounded to
\* the nearest unit; a product beyond the model's range is HUGE
Mul(a, b) ==
    IF Abs(a) >= 1000 /\ Abs(b) \div 1000 >= HUGE \div (Abs(a) \div 1000)
    THEN Sign(a) * Sign(b) * HUGE
    ELSE MulLimbs(a, b, TS \div 2)

\* long division by b: p = <<r, n, acc>> is the remainder r, 0 <= r < b, the
\* number n of decimal digits still to come and the digits acc found so
\* far; the last digit is rounded
RECURSIVE Frac(_, _)
Frac(b, p) ==
    IF p[2] = 0 THEN p[3] + (IF 2 * p[1] >= b THEN 1 ELSE 0)
    ELSE Frac(b, <<(10 * p[1]) % b, p[2] - 1, 10 * p[3] + ((10 * p[1]) \div b)>>)

\* a / b for a >= 0 and 0 < b < 200 * TS
DivSmall(a, b) == IF a \div b >= 1000 THEN HUGE ELSE Frac(b, <<a % b, 6, a \div b>>)

\* a / b for a >= 0 and b > 0
DivAbs(a, b) == DivSmall(IF b >= 100 * TS THEN a \div 100 ELSE a,
                         IF b >= 100 * TS THEN b \div 100 ELSE b)

\* the quotient a / b (a dimensionless result of like quantities, or a
\* quantity divided by a dimensionless one); x / 0 is the IEEE infinity
Div(a, b) ==
    IF b = 0 THEN Sign(a) * HUGE
    ELSE Sign(a) * Sign(b) * DivAbs(Abs(a), Abs(b))

\* one halving of the bracket p = <<lo, hi>> of the square root of v
SqrtStep(v, p) ==
    IF p[2] - p[1] <= 1 THEN p
    ELSE IF MulLimbs((p[1] + p[2]) \div 2, (p[1] + p[2]) \div 2, TS - 1) <= v
         THEN <<(p[1] + p[2]) \div 2, p[2]>>
         ELSE <<p[1], (p[1] + p[2]) \div 2>>

\* numpy.sqrt of a dimensionless v >= 0: the largest s with s * s <= v, by
\* bisection of the bracket p, four halvings at a time
RECURSIVE SqrtBis(_, _)
SqrtBis(v, p) ==
    IF p[2] - p[1] <= 1 THEN p[1]
    ELSE SqrtBis(v, SqrtStep(v, SqrtStep(v, SqrtStep(v, SqrtStep(v, p)))))

Sqrt(v) == IF v <= 0 THEN 0
           ELSE IF v = TS THEN TS
           ELSE SqrtBis(v, <<0, Max(v, TS) + 1>>)

---------------------------------------------------------------------------
(* Trigonometry: numpy.sin, cos, arcsin, arccos, arctan2 *)

\* an angle of a mas as a dimensionless number of radians:
\* a * pi / 648000000 * TS = a * (0.004848 + 0.000000137)
Rad(a) == Mul(a, 4848) + RDiv(Mul(a, 137), 1000)

\* an angle of x rad (x dimensionless, in units of 1e-6) in mas
RadToMas(x) == Mul(x, 206264806)

\* the nested form 1 - x2/k1 * (1 - x2/k2 * (...)) of a Taylor series, from
\* its innermost factor outwards: p = <<the divisors still to come, the
\* factor so far>>
RECURSIVE Nested(_, _)
Nested(x2, p) ==
    IF p[1] = <<>> THEN p[2]
    ELSE Nested(x2, <<Tail(p[1]), TS - RDiv(Mul(x2, p[2]), Head(p[1]))>>)

\* Taylor series of the sine on [0, pi/4], x2 = x * x
SinT(x, x2) == Mul(x, Nested(x2, <<<<72, 42, 20, 6>>, TS>>))

\* Taylor series of the cosine on [0, pi/4], x2 = x * x
CosT(x2) == Nested(x2, <<<<90, 56, 30, 12, 2>>, TS>>)

\* sine of x rad and of its complement y = pi/2 - x, for x in [0, pi/2]
SinX(x, y) == IF x <= y THEN SinT(x, Mul(x, x)) ELSE CosT(Mul(y, y))

\* sine of an angle in [0, 90] degrees
SinQ(a) == SinX(Rad(a), Rad(DEG90 - a))

\* the angle a reduced to [-180, 180) degrees
Wrap(a) == ((a + DEG180) % DEG360) - DEG180

\* sine of an angle in [-180, 180) degrees
SinW(w) == Sign(w) * SinQ(Min(Abs(w), DEG180 - Abs(w)))

Sin(a) == SinW(Wrap(a))

Cos(a) == SinW(Wrap(Wrap(a) + DEG90))

\* one halving of the bracket p = <<lo, hi>> of the angle whose sine is s
ArcSinStep(s, p) ==
    IF p[2] - p[1] <= 1 THEN p
    ELSE IF SinQ((p[1] + p[2]) \div 2) >= s THEN <<p[1], (p[1] + p[2]) \div 2>>
                                            ELSE <<(p[1] + p[2]) \div 2, p[2]>>

\* numpy.arcsin on [0, TS]: the smallest angle in [0, 90] degrees whose sine
\* reaches s, by bisection of the bracket p, four halvings at a time
RECURSIVE ArcSinBis(_, _)
ArcSinBis(s, p) ==
    IF p[2] - p[1] <= 1 THEN p[2]
    ELSE ArcSinBis(s, ArcSinStep(s, ArcSinStep(s, ArcSinStep(s, ArcSinStep(s, p)))))

ArcSin(s) ==
    IF s = 0 THEN 0
    ELSE IF Abs(s) >= TS THEN Sign(s) * DEG90
    ELSE Sign(s) * ArcSinBis(Abs(s), <<0, DEG90>>)

ArcCos(c) == DEG90 - ArcSin(c)

\* length of the vector (a, b)
Hypot(a, b) == Sqrt(Mul(a, a) + Mul(b, b))

\* a component v >= 0 of a vector whose larger component is m, rescaled: only
\* the direction matters to arctan2, and a double keeps its relative
\* precision at every magnitude
Rescale(v, m) == IF m < 1000 THEN 1000 * v
                 ELSE IF m > 10 * TS THEN v \div 1000 ELSE v

\* the angle in [0, 90] degrees of the vector (d, n), n > 0 and d > 0, from
\* the angle base in [0, 45] degrees of its smaller component
ArcTanF(n, d, base) == IF n <= d THEN base ELSE DEG90 - base

ArcTanQ(n, d) == ArcTanF(n, d, ArcSin(Min(TS, Div(Min(n, d), Hypot(n, d)))))

\* numpy.arctan2(num, den), in (-180, 180] degrees; arctan2(0, 0) = 0
ArcTanS(num, den, base) ==
    Sign(num) * (IF den > 0 THEN base ELSE DEG180 - base)

ArcTan2(num, den) ==
    IF num = 0 THEN (IF den >= 0 THEN 0 ELSE DEG180)
    ELSE IF den = 0 THEN Sign(num) * DEG90
    ELSE ArcTanS(num, den, ArcTanQ(Rescale(Abs(num), Max(Abs(num), Abs(den))),
                                   Rescale(Abs(den), Max(Abs(num), Abs(den)))))

\* numpy.arctan(t) = arctan2(t, 1)
ArcTan(t) == ArcTan2(t, TS)

---------------------------------------------------------------------------
(* Calls and their outcomes.  The non-reference arguments of a call are    *)
(* sequences: a Python float is a sequence of length 1, a numpy array of N *)
(* values a sequence of length N; the arithmetic is elementwise.           *)

\* np.pi as a dimensionless number
PI == 3141593

\* a call that raised
Raise(msg) == [raised |-> msg, a |-> <<>>, b |-> <<>>]

\* a call that returned the pair (a, b)
Return(a, b) == [raised |-> "", a |-> a, b |-> b]

ElevationRange == "ValueError: Elevation angle outside range of +- pi/2 radians"
Ambiguous == "ValueError: The truth value of an array with more than one element is ambiguous"
OutOfRange == "ValueError: (x, y) coordinates out of range"
TooLong == "ValueError: Length of (x, y) vector bigger than 1.0"

\* np.any(c) of a boolean array
np_any(c) == \E i \in DOMAIN c : c[i]

\* np.asarray(f): the array of the values of f, computed once
np_asarray(f) == SubSeq(f, 1, Len(f))

\* np.all(c) of a boolean array
np_all(c) == \A i \in DOMAIN c : c[i]

\* bool(c) as taken by "if c:": defined for one element only
Truth(c) == IF Len(c) = 1 THEN (IF c[1] THEN "True" ELSE "False") ELSE "ambiguous"

\* np.any(np.abs(el0) > np.pi / 2.0) or np.any(np.abs(el) > np.pi / 2.0)
OutsideElevation(el0, el) ==
    Abs(el0) > DEG90 \/ np_any([i \in DOMAIN el |-> Abs(el[i]) > DEG90])

\* x * x + y * y, elementwise
SumSq(x, y) == [i \in DOMAIN x |-> Mul(x[i], x[i]) + Mul(y[i], y[i])]

\* the intermediate with the two terms of y added
OrthoT_sum(sin_el, cos_el, sin_el0, cos_el0, sin_daz, cos_daz) ==
    [cos_theta |-> Mul(sin_el, sin_el0) + Mul(Mul(cos_el, cos_el0), cos_daz),
     x |-> Mul(cos_el, sin_daz),
     y |-> Mul(sin_el, cos_el0) + Mul(Mul(cos_el, sin_el0), cos_daz)]

\* the orthographic intermediate every sphere_to_plane computes
OrthoT(sin_el, cos_el, sin_el0, cos_el0, sin_daz, cos_daz) ==
    [cos_theta |-> Mul(sin_el, sin_el0) + Mul(Mul(cos_el, cos_el0), cos_daz),
     x |-> Mul(cos_el, sin_daz),
     y |-> Mul(sin_el, cos_el0) - Mul(Mul(cos_el, sin_el0), cos_daz)]

Ortho(az0, el0, az, el) ==
    [i \in DOMAIN az |->
        OrthoT(Sin(el[i]), Cos(el[i]), Sin(el0), Cos(el0),
               Sin(az[i] - az0), Cos(az[i] - az0))]

\* the direction the plane_to_sphere of SIN, ARC and STG returns: sin_el is
\* sin(el), num and den are cos(el) cos(el0) times sin and cos of delta_az
ToSphere(az0, sin_el, num, den) ==
    IF np_any([i \in DOMAIN sin_el |-> Abs(sin_el[i]) > TS]) THEN Raise(OutOfRange)
    ELSE Return([i \in DOMAIN sin_el |-> az0 + ArcTan2(num[i], den[i])],
                [i \in DOMAIN sin_el |-> ArcSin(sin_el[i])])

\* the same for ARC and STG, whose den is cos_theta - sin_el * sin_el0
ToSphereScaled(az0, sin_el0, cos_theta, num, sin_el) ==
    ToSphere(az0, sin_el, num,
             [i \in DOMAIN sin_el |-> cos_theta[i] - Mul(sin_el[i], sin_el0)])

---------------------------------------------------------------------------
(* Orthographic projection (SIN) *)

\* sphere_to_plane_SIN_o rejecting a separation of exactly 90 degrees too
sphere_to_plane_SIN_closed(o) ==
    IF np_any([i \in DOMAIN o |-> o[i].cos_theta <= 0])
    THEN Raise("ValueError: Target point more than 90 degrees away from reference point")
    ELSE Return([i \in DOMAIN o |-> o[i].x], [i \in DOMAIN o |-> o[i].y])

sphere_to_plane_SIN_o(o) ==
    IF np_any([i \in DOMAIN o |-> o[i].cos_theta < 0])
    THEN Raise("ValueError: Target point more than 90 degrees away from reference point")
    ELSE Return([i \in DOMAIN o |-> o[i].x], [i \in DOMAIN o |-> o[i].y])

sphere_to_plane_SIN(az0, el0, az, el) ==
    IF OutsideElevation(el0, el) THEN Raise(ElevationRange)
    ELSE sphere_to_plane_SIN_o(Ortho(az0, el0, az, el))

plane_to_sphere_SIN_el(az0, x, y, sin_el0, cos_el0, cos_theta) ==
    ToSphere(az0,
             [i \in DOMAIN x |-> Mul(sin_el0, cos_theta[i]) + Mul(cos_el0, y[i])],
             x,
             [i \in DOMAIN x |-> Mul(cos_el0, cos_theta[i]) - Mul(sin_el0, y[i])])

plane_to_sphere_SIN_theta(az0, el0, x, y, sin2_theta) ==
    IF Truth([i \in DOMAIN x |-> sin2_theta[i] > TS]) = "ambiguous" THEN Raise(Ambiguous)
    ELSE IF Truth([i \in DOMAIN x |-> sin2_theta[i] > TS]) = "True" THEN Raise(TooLong)
    ELSE plane_to_sphere_SIN_el(az0, x, y, Sin(el0), Cos(el0),
                                [i \in DOMAIN x |-> Sqrt(TS - sin2_theta[i])])

plane_to_sphere_SIN(az0, el0, x, y) ==
    plane_to_sphere_SIN_theta(az0, el0, x, y, SumSq(x, y))

---------------------------------------------------------------------------
(* Gnomonic projection (TAN) *)

sphere_to_plane_TAN_o(o) ==
    IF np_any([i \in DOMAIN o |-> o[i].cos_theta <= 0])
    THEN Raise("ValueError: Target point 90 degrees or more away from reference point")
    ELSE Return([i \in DOMAIN o |-> Div(o[i].x, o[i].cos_theta)],
                [i \in DOMAIN o |-> Div(o[i].y, o[i].cos_theta)])

sphere_to_plane_TAN(az0, el0, az, el) ==
    IF OutsideElevation(el0, el) THEN Raise(ElevationRange)
    ELSE sphere_to_plane_TAN_o(Ortho(az0, el0, az, el))

\* daz is az - az0
plane_to_sphere_TAN_el(az0, y, sin_el0, cos_el0, den, daz) ==
    Return([i \in DOMAIN y |-> az0 + daz[i]],
           [i \in DOMAIN y |->
               ArcTan(Div(Mul(Cos(daz[i]), sin_el0 + Mul(y[i], cos_el0)), den[i]))])

plane_to_sphere_TAN_az(az0, x, y, sin_el0, cos_el0, den) ==
    plane_to_sphere_TAN_el(az0, y, sin_el0, cos_el0, den,
                           [i \in DOMAIN x |-> ArcTan2(x[i], den[i])])

plane_to_sphere_TAN_den(az0, x, y, sin_el0, cos_el0) ==
    plane_to_sphere_TAN_az(az0, x, y, sin_el0, cos_el0,
                           [i \in DOMAIN x |-> cos_el0 - Mul(y[i], sin_el0)])

plane_to_sphere_TAN_theta(az0, el0, x, y, tan2_theta) ==
    IF Truth([i \in DOMAIN x |-> tan2_theta[i] > TS]) = "ambiguous" THEN Raise(Ambiguous)
    ELSE IF Truth([i \in DOMAIN x |-> tan2_theta[i] > TS]) = "True" THEN Raise(TooLong)
    ELSE plane_to_sphere_TAN_den(az0, x, y, Sin(el0), Cos(el0))

plane_to_sphere_TAN(az0, el0, x, y) ==
    plane_to_sphere_TAN_theta(az0, el0, x, y, SumSq(x, y))

---------------------------------------------------------------------------
(* Zenithal equidistant projection (ARC) *)

\* theta is kept in mas, for np.sin(theta), and converted where it is a factor
sphere_to_plane_ARC_scale(o, scale) ==
    Return([i \in DOMAIN o |-> Mul(scale[i], o[i].x)],
           [i \in DOMAIN o |-> Mul(scale[i], o[i].y)])

sphere_to_plane_ARC_theta(o, theta) ==
    IF Truth([i \in DOMAIN o |-> theta[i] = 0]) = "ambiguous" THEN Raise(Ambiguous)
    ELSE IF Truth([i \in DOMAIN o |-> theta[i] = 0]) = "True"
    THEN sphere_to_plane_ARC_scale(o, [i \in DOMAIN o |-> TS])
    ELSE sphere_to_plane_ARC_scale(o,
             [i \in DOMAIN o |-> Div(Rad(theta[i]), Sin(theta[i]))])

sphere_to_plane_ARC_o(o) ==
    sphere_to_plane_ARC_theta(o,
        [i \in DOMAIN o |-> ArcCos(Clip(o[i].cos_theta, -TS, TS))])

sphere_to_plane_ARC(az0, el0, az, el) ==
    IF OutsideElevation(el0, el) THEN Raise(ElevationRange)
    ELSE sphere_to_plane_ARC_o(Ortho(az0, el0, az, el))

plane_to_sphere_ARC_el(az0, x, y, sin_el0, cos_el0, cos_theta, scale) ==
    ToSphereScaled(az0, sin_el0, cos_theta,
        [i \in DOMAIN x |-> Mul(Mul(x[i], scale[i]), cos_el0)],
        [i \in DOMAIN x |->
            Mul(Mul(cos_el0, scale[i]), y[i]) + Mul(sin_el0, cos_theta[i])])

\* theta is the dimensionless radius, theta_mas the same angle in mas
plane_to_sphere_ARC_scale(az0, el0, x, y, theta, theta_mas) ==
    plane_to_sphere_ARC_el(az0, x, y, Sin(el0), Cos(el0),
        [i \in DOMAIN x |-> Cos(theta_mas[i])],
        IF Truth([i \in DOMAIN x |-> theta[i] = 0]) = "True"
        THEN [i \in DOMAIN x |-> TS]
        ELSE [i \in DOMAIN x |-> Div(Sin(theta_mas[i]), theta[i])])

plane_to_sphere_ARC_theta(az0, el0, x, y, theta) ==
    IF Truth([i \in DOMAIN x |-> theta[i] > PI]) = "ambiguous" THEN Raise(Ambiguous)
    ELSE IF Truth([i \in DOMAIN x |-> theta[i] > PI]) = "True"
    THEN Raise("ValueError: Length of (x, y) vector bigger than pi")
    ELSE plane_to_sphere_ARC_scale(az0, el0, x, y, theta,
                                   [i \in DOMAIN x |-> RadToMas(theta[i])])

plane_to_sphere_ARC(az0, el0, x, y) ==
    plane_to_sphere_ARC_theta(az0, el0, x, y,
        [i \in DOMAIN x |-> Sqrt(Mul(x[i], x[i]) + Mul(y[i], y[i]))])

---------------------------------------------------------------------------
(* Stereographic projection (STG) *)

\* the 1e-5 of "if np.any(den < 1e-5)"
STG_EPS == 10

sphere_to_plane_STG_o(o) ==
    IF np_any([i \in DOMAIN o |-> TS + o[i].cos_theta < STG_EPS])
    THEN Raise("ValueError: Target point ~180 degrees away from reference point")
    ELSE Return([i \in DOMAIN o |-> Div(2 * o[i].x, TS + o[i].cos_theta)],
                [i \in DOMAIN o |-> Div(2 * o[i].y, TS + o[i].cos_theta)])

sphere_to_plane_STG(az0, el0, az, el) ==
    IF OutsideElevation(el0, el) THEN Raise(ElevationRange)
    ELSE sphere_to_plane_STG_o(Ortho(az0, el0, az, el))

\* scale is (1.0 + cos_theta) / 2.0
plane_to_sphere_STG_el(az0, x, y, sin_el0, cos_el0, cos_theta) ==
    ToSphereScaled(az0, sin_el0, cos_theta,
        [i \in DOMAIN x |-> Mul(Mul(x[i], (TS + cos_theta[i]) \div 2), cos_el0)],
        [i \in DOMAIN x |->
            Mul(Mul(cos_el0, (TS + cos_theta[i]) \div 2), y[i])
            + Mul(sin_el0, cos_theta[i])])

plane_to_sphere_STG_theta(az0, el0, x, y, r2) ==
    plane_to_sphere_STG_el(az0, x, y, Sin(el0), Cos(el0),
        [i \in DOMAIN x |-> Div(4 * TS - r2[i], 4 * TS + r2[i])])

plane_to_sphere_STG(az0, el0, x, y) ==
    plane_to_sphere_STG_theta(az0, el0, x, y, SumSq(x, y))

---------------------------------------------------------------------------
(* Selector *)

Families == {"SIN", "TAN", "ARC", "STG"}

sphere_to_plane(F, az0, el0, az, el) ==
    CASE F = "SIN" -> sphere_to_plane_SIN(az0, el0, az, el)
      [] F = "TAN" -> sphere_to_plane_TAN(az0, el0, az, el)
      [] F = "ARC" -> sphere_to_plane_ARC(az0, el0, az, el)
      [] F = "STG" -> sphere_to_plane_STG(az0, el0, az, el)

plane_to_sphere(F, az0, el0, x, y) ==
    CASE F = "SIN" -> plane_to_sphere_SIN(az0, el0, x, y)
      [] F = "TAN" -> plane_to_sphere_TAN(az0, el0, x, y)
      [] F = "ARC" -> plane_to_sphere_ARC(az0, el0, x, y)
      [] F = "STG" -> plane_to_sphere_STG(az0, el0, x, y)


---------------------------------------------------------------------------
(* Arithmetic of the corrections.  A pointing correction is resolved to    *)
(* 0.01 arcsec where sec(el) is 11 and tan(zenith) is 57, so the sines,    *)
(* the scale factors and the powers of correction.py are kept to 1/HS.     *)

\* one unit of a high-resolution dimensionless quantity is 1/HS
HS == 100 * TS

\* the product a * b / HS rounded to the nearest unit, on base-10000 limbs
\* (|a * b| < 21 HS * HS)
MulH(a, b) ==
    (a \div 10000) * (b \div 10000)
    + (((a \div 10000) * (b % 10000) + (a % 10000) * (b \div 10000)
        + (((a % 10000) * (b % 10000) + 5000) \div 10000)) \div 10000)

\* the quotient a / b in units of 1/HS, for a >= 0, b > 0 and a / b < 21
DivH(a, b) ==
    Frac(IF b >= 2 * HS THEN b \div 2 ELSE b,
         <<(IF b >= 2 * HS THEN a \div 2 ELSE a) % (IF b >= 2 * HS THEN b \div 2 ELSE b),
           8,
           (IF b >= 2 * HS THEN a \div 2 ELSE a) \div (IF b >= 2 * HS THEN b \div 2 ELSE b)>>)

\* np.deg2rad: an angle of a mas in radians, in units of 1/HS
\* (pi / 648000000 * HS = 0.48481368)
RadH(a) == MulH(a, 48481368)

\* the nested form 1 - x2/k1 * (1 - x2/k2 * (...)) of a Taylor series, from
\* its innermost factor outwards: p = <<the divisors still to come, the
\* factor so far>>
RECURSIVE NestedH(_, _)
NestedH(x2, p) ==
    IF p[1] = <<>> THEN p[2]
    ELSE NestedH(x2, <<Tail(p[1]), HS - RDiv(MulH(x2, p[2]), Head(p[1]))>>)

\* Taylor series of the sine on [0, pi/4], x2 = x * x
SinTH(x, x2) == MulH(x, NestedH(x2, <<<<110, 72, 42, 20, 6>>, HS>>))

\* Taylor series of the cosine on [0, pi/4], x2 = x * x
CosTH(x2) == NestedH(x2, <<<<132, 90, 56, 30, 12, 2>>, HS>>)

\* np.sin of x rad, a small angle, and np.cos of y rad, its complement
SinXH(a, x, y) == IF a <= DEG45 THEN SinTH(x, MulH(x, x)) ELSE CosTH(MulH(y, y))

\* sine of an angle in [0, 90] degrees
SinQH(a) == SinXH(a, RadH(Min(a, DEG45)), RadH(Min(DEG90 - a, DEG45)))

\* sine of an angle in [-180, 180) degrees
SinWH(w) == Sign(w) * SinQH(Min(Abs(w), DEG180 - Abs(w)))

\* np.sin
SinH(a) == SinWH(Wrap(a))

\* np.cos
CosH(a) == SinWH(Wrap(Wrap(a) + DEG90))

\* the series 1 + z2/3 + z2^2/5 + ... of atanh(z) / z, from the term 1/k
\* down: p = <<k, the sum t so far>>
RECURSIVE AtanhT(_, _)
AtanhT(z2, p) ==
    IF p[1] < 1 THEN p[2] ELSE AtanhT(z2, <<p[1] - 2, (HS \div p[1]) + MulH(z2, p[2])>>)

\* atanh(z) for |z| <= 1/3
AtanhH(z) == MulH(z, AtanhT(MulH(z, z), <<15, HS \div 17>>))

\* log(2) = 2 atanh(1/3)
LN2 == 2 * AtanhH(DivH(HS, 3 * HS))

\* np.log(v) for v > 0: log(v) = 2 atanh((v - 1) / (v + 1)) on [1/2, 1]
RECURSIVE LnH(_)
LnH(v) ==
    IF v < HS \div 2 THEN LnH(2 * v) - LN2
    ELSE IF v > HS THEN LnH(v \div 2) + LN2
    ELSE -2 * AtanhH(DivH(HS - v, HS + v))

\* Taylor series of exp(y), from the term y/k down: p = <<k, the sum t so far>>
RECURSIVE ExpT(_, _)
ExpT(y, p) ==
    IF p[1] = 0 THEN p[2] ELSE ExpT(y, <<p[1] - 1, HS + RDiv(MulH(y, p[2]), p[1])>>)

\* v halved n times over, rounded each time: p = <<v, n>>
RECURSIVE Halved(_)
Halved(p) == IF p[2] = 0 THEN p[1] ELSE Halved(<<RDiv(p[1], 2), p[2] - 1>>)

\* the number n of log 2 that bring y < -log(2)/2 up to -log(2)/2 or above
ExpShift(y) == (LN2 - 1 - (LN2 \div 2) - y) \div LN2

\* np.exp(y) for y < 2: exp(y) = 2 exp(y - log 2) above log(2)/2, and
\* exp(y) = exp(y + n log 2) / 2^n below -log(2)/2
RECURSIVE ExpH(_)
ExpH(y) ==
    IF y < -(LN2 \div 2)
    THEN Halved(<<ExpT(y + ExpShift(y) * LN2, <<9, HS>>), ExpShift(y)>>)
    ELSE IF y > LN2 \div 2 THEN 2 * ExpH(y - LN2)
    ELSE ExpT(y, <<9, HS>>)

\* v ** f for 0 < v <= 1.4
PowH(v, f) == ExpH(MulH(f, LnH(v)))
---------------------------------------------------------------------------
(* State *)

VARIABLES
    call,     \* the call made last: its operation, its arguments and its outcome
    prev,     \* the call whose outcome supplied the arguments of call, or NoCall
    params    \* PointingModel.params of the model instance

vars == <<call, prev, params>>

NoCall == [op |-> "none"]

\* PointingModel.num_params
num_params == 22

\* np.zeros(num_params)
Zeros == [p \in 1..num_params |-> 0]

---------------------------------------------------------------------------
(* The projection engine: callers of sphere_to_plane and plane_to_sphere *)

\* latitudes k * 30 degrees, |k| <= LatSteps (beyond 3 they leave +-pi/2)
LatSteps == 4

\* longitudes (k - 1) * 45 degrees, k <= LonSteps
LonSteps == 4

\* plane coordinates k / 2, |k| <= PlaneSteps
PlaneSteps == 2

Lats == {k * 30 * DEG : k \in -LatSteps..LatSteps}

Lons == {(k - 1) * 45 * DEG : k \in 0..LonSteps}

\* the reference longitude of every call
RefLon == -45 * DEG

\* plane coordinates, and one beyond the radius pi
PlaneXs == {k * (TS \div 2) : k \in -PlaneSteps..PlaneSteps} \cup {7 * (TS \div 2)}

ProjCall(op, F, az0, el0, a, b, res) ==
    [op |-> op, F |-> F, az0 |-> az0, el0 |-> el0, a |-> a, b |-> b, res |-> res]

\* a caller projects one direction
SphereToPlane ==
    \E F \in Families, el0 \in Lats, az \in Lons, el \in Lats :
        /\ call = NoCall
        /\ call' = ProjCall("sphere_to_plane", F, RefLon, el0, <<az>>, <<el>>,
                            sphere_to_plane(F, RefLon, el0, <<az>>, <<el>>))
        /\ prev' = NoCall
        /\ UNCHANGED params

\* a caller deprojects one plane point
PlaneToSphere ==
    \E F \in Families, el0 \in Lats, x \in PlaneXs, y \in PlaneXs :
        /\ call = NoCall
        /\ call' = ProjCall("plane_to_sphere", F, RefLon, el0, <<x>>, <<y>>,
                            plane_to_sphere(F, RefLon, el0, <<x>>, <<y>>))
        /\ prev' = NoCall
        /\ UNCHANGED params

\* a caller deprojects the plane point it was returned (test_random_closure)
Deproject ==
    /\ call.op = "sphere_to_plane"
    /\ prev = NoCall
    /\ call.res.raised = ""
    /\ call' = ProjCall("plane_to_sphere", call.F, call.az0, call.el0,
                        call.res.a, call.res.b,
                        plane_to_sphere(call.F, call.az0, call.el0, call.res.a, call.res.b))
    /\ prev' = call
    /\ UNCHANGED params

\* a caller projects the direction it was returned (test_random_closure)
Project ==
    /\ call.op = "plane_to_sphere"
    /\ prev = NoCall
    /\ call.res.raised = ""
    /\ call' = ProjCall("sphere_to_plane", call.F, call.az0, call.el0,
                        call.res.a, call.res.b,
                        sphere_to_plane(call.F, call.az0, call.el0, call.res.a, call.res.b))
    /\ prev' = call
    /\ UNCHANGED params

InitProj == call = NoCall /\ prev = NoCall /\ params = Zeros

NextProj == SphereToPlane \/ PlaneToSphere \/ Deproject \/ Project

SpecProj == InitProj /\ [][NextProj]_vars

---------------------------------------------------------------------------
(* Properties of the projection engine *)

\* the model resolves 1e-6 where a double resolves 1e-16: a round trip
\* through a square root or an arcsine closes to the square root of that
PlaneTol == 2 * (TS \div 1000)
AngleTol == 600 * ARCSEC

IsProjCall == call.op \in {"sphere_to_plane", "plane_to_sphere"}

\* the cosine of the angular separation of a scalar call's target and reference
CosTheta(c) == Ortho(c.az0, c.el0, c.a, c.b)[1].cos_theta

\* the targets of F's valid sphere domain
InSphereDomain(c) ==
    /\ Abs(c.b[1]) <= DEG90
    /\ CASE c.F = "SIN" -> CosTheta(c) >= 0
         [] c.F = "TAN" -> CosTheta(c) > 0
         [] c.F = "STG" -> TS + CosTheta(c) >= STG_EPS
         [] c.F = "ARC" -> TRUE

\* the plane points of F's valid plane domain
InPlaneDomain(c) ==
    CASE c.F = "SIN" -> SumSq(c.a, c.b)[1] <= TS
      [] c.F = "ARC" -> Sqrt(SumSq(c.a, c.b)[1]) <= PI
      [] OTHER -> TRUE

\* the direction (az, el) is the direction (az2, el2); at a pole every
\* longitude is the same direction
SameDirection(az, el, az2, el2) ==
    /\ Abs(el - el2) <= AngleTol
    /\ Abs(el2) = DEG90 \/ Abs(Wrap(az - az2)) <= AngleTol

SamePoint(x, y, x2, y2) == Abs(x - x2) <= PlaneTol /\ Abs(y - y2) <= PlaneTol

\* C1: for every family and every reference latitude within +-pi/2, a plane
\* point of the family's plane domain is deprojected and projected back to
\* itself, and a target of the family's sphere domain is projected and
\* deprojected back to itself (longitude modulo 2 pi)
C1_RoundTrip ==
    (IsProjCall /\ Abs(call.el0) <= DEG90) =>
        /\ (call.op = "plane_to_sphere" /\ prev = NoCall /\ InPlaneDomain(call))
               => call.res.raised = ""
        /\ (call.op = "sphere_to_plane" /\ prev # NoCall /\ InPlaneDomain(prev))
               => /\ call.res.raised = ""
                  /\ SamePoint(call.res.a[1], call.res.b[1], prev.a[1], prev.b[1])
        /\ (call.op = "sphere_to_plane" /\ prev = NoCall /\ InSphereDomain(call))
               => call.res.raised = ""
        /\ (call.op = "plane_to_sphere" /\ prev # NoCall /\ InSphereDomain(prev))
               => /\ call.res.raised = ""
                  /\ SameDirection(call.res.a[1], call.res.b[1], prev.a[1], prev.b[1])

\* C6: with both latitudes within +-pi/2, a scalar sphere_to_plane call
\* raises exactly when cos(theta) < 0 for SIN, cos(theta) <= 0 for TAN,
\* 1 + cos(theta) < 1e-5 for STG and never for ARC, and returns otherwise
C6_SphereDomain ==
    (call.op = "sphere_to_plane" /\ Abs(call.el0) <= DEG90 /\ Abs(call.b[1]) <= DEG90)
        => ((call.res.raised # "") <=>
                CASE call.F = "SIN" -> CosTheta(call) < 0
                  [] call.F = "TAN" -> CosTheta(call) <= 0
                  [] call.F = "STG" -> TS + CosTheta(call) < STG_EPS
                  [] call.F = "ARC" -> FALSE)

\* a SIN projection of a target exactly 90 degrees away returned
C6_Witness ==
    /\ call.op = "sphere_to_plane"
    /\ call.F = "SIN"
    /\ Abs(call.el0) <= DEG90
    /\ Abs(call.b[1]) <= DEG90
    /\ CosTheta(call) = 0
    /\ call.res.raised = ""

\* C7: plane_to_sphere of TAN and of STG returns a direction for every plane
\* point; of SIN and ARC, plane_to_sphere rejects exactly the points outside
\* the radius 1 and pi
C7_PlaneDomain ==
    call.op = "plane_to_sphere" =>
        IF call.F \in {"TAN", "STG"} THEN call.res.raised = ""
        ELSE (call.res.raised # "") <=> ~InPlaneDomain(call)

\* C8: every call with a reference latitude beyond +-pi/2, and every
\* sphere_to_plane call with a target latitude beyond +-pi/2, raises
C8_LatitudeRange ==
    /\ (IsProjCall /\ Abs(call.el0) > DEG90) => call.res.raised # ""
    /\ (call.op = "sphere_to_plane" /\ Abs(call.b[1]) > DEG90) => call.res.raised # ""

---------------------------------------------------------------------------
(* Callers passing arrays to the projection engine *)

\* array elements: latitudes and plane coordinates of up to ArrSteps steps
ArrSteps == 1

ArrLats == {k * 30 * DEG : k \in 0..ArrSteps}

ArrLons == {RefLon + k * 90 * DEG : k \in 0..ArrSteps}

ArrXs == {k * (TS \div 2) : k \in 0..(ArrSteps + 1)}

\* a caller projects an array of two directions
SphereToPlaneArray ==
    \E F \in Families, el0 \in ArrLats, az1 \in ArrLons, el1 \in ArrLats,
       az2 \in ArrLons, el2 \in ArrLats :
        /\ call = NoCall
        /\ call' = ProjCall("sphere_to_plane", F, RefLon, el0, <<az1, az2>>, <<el1, el2>>,
                            sphere_to_plane(F, RefLon, el0, <<az1, az2>>, <<el1, el2>>))
        /\ prev' = NoCall
        /\ UNCHANGED params

\* a caller deprojects an array of two plane points
PlaneToSphereArray ==
    \E F \in Families, el0 \in ArrLats, x1 \in ArrXs, y1 \in ArrXs,
       x2 \in ArrXs, y2 \in ArrXs :
        /\ call = NoCall
        /\ call' = ProjCall("plane_to_sphere", F, RefLon, el0, <<x1, x2>>, <<y1, y2>>,
                            plane_to_sphere(F, RefLon, el0, <<x1, x2>>, <<y1, y2>>))
        /\ prev' = NoCall
        /\ UNCHANGED params

NextArr == SphereToPlaneArray \/ PlaneToSphereArray

SpecArr == InitProj /\ [][NextArr]_vars

\* the scalar call on the i-th inputs of the array call c
ScalarCall(c, i) ==
    IF c.op = "sphere_to_plane"
    THEN sphere_to_plane(c.F, c.az0, c.el0, <<c.a[i]>>, <<c.b[i]>>)
    ELSE plane_to_sphere(c.F, c.az0, c.el0, <<c.a[i]>>, <<c.b[i]>>)

\* C9: a projection call on arrays of N >= 2 inputs returns, element by
\* element, what the scalar calls on the elements return, or raises the
\* domain error one of them raises
C9_Elementwise ==
    (IsProjCall /\ Len(call.a) >= 2) =>
        IF call.res.raised = ""
        THEN \A i \in DOMAIN call.a :
                 /\ ScalarCall(call, i).raised = ""
                 /\ ScalarCall(call, i).a[1] = call.res.a[i]
                 /\ ScalarCall(call, i).b[1] = call.res.b[i]
        ELSE \E i \in DOMAIN call.a : ScalarCall(call, i).raised = call.res.raised


---------------------------------------------------------------------------
(* PointingModel: the 22-parameter VLBI pointing model.  params[1..22] are *)
(* P1..P22: angles in mas, except the scale factors P9 and P12, which are  *)
(* dimensionless in units of 1/HS.  az and el are arrays (sequences).      *)

\* np.sin and np.cos of az, 2 az, el and 8 el (8 el modulo 360 degrees)
Trig(az, el) ==
    [sin_az |-> SinH(az), cos_az |-> CosH(az),
     sin_2az |-> SinH(2 * Wrap(az)), cos_2az |-> CosH(2 * Wrap(az)),
     sin_el |-> SinH(el), cos_el |-> CosH(el),
     sin_8el |-> SinH(8 * (el % DEG45)), cos_8el |-> CosH(8 * (el % DEG45))]

\* the secant of a cosine kept 12 arcmin away from zero
SecEl_wide(t) == Sign(t.cos_el) * Div(HS, Clip(Abs(t.cos_el), RadH(12 * 60 * ARCSEC), HS))

\* sec_el = np.sign(cos_el) / np.clip(np.abs(cos_el), deg2rad(6. / 60.), 1.0),
\* in units of 1/TS
SecEl(t) == Sign(t.cos_el) * Div(HS, Clip(Abs(t.cos_el), RadH(6 * 60 * ARCSEC), HS))

\* tan_el = sin_el * sec_el, in units of 1/TS
TanEl(t, sec_el) == MulH(sec_el, t.sin_el)

\* delta_az and delta_el of PointingModel.offset
offset_terms(P, az, el, t, sec_el, tan_el) ==
    [delta_az |->
        P[1] + Mul(P[3], tan_el) - Mul(P[4], sec_el)
        + Mul(MulH(P[5], t.sin_az), tan_el) - Mul(MulH(P[6], t.cos_az), tan_el)
        + MulH(az, P[12]) + MulH(P[13], t.cos_az) + MulH(P[14], t.sin_az)
        + MulH(P[17], t.cos_2az) + MulH(P[18], t.sin_2az),
     delta_el |->
        MulH(P[5], t.cos_az) + MulH(P[6], t.sin_az) + P[7] + MulH(P[8], t.cos_el)
        + MulH(el, P[9]) + MulH(P[11], t.sin_el)
        + MulH(P[15], t.cos_2az) + MulH(P[16], t.sin_2az)
        + MulH(P[19], t.cos_8el) + MulH(P[20], t.sin_8el)
        + MulH(P[21], t.cos_az) + MulH(P[22], t.sin_az)]

offset_sec(P, az, el, t, sec_el) == offset_terms(P, az, el, t, sec_el, TanEl(t, sec_el))

offset_trig(P, az, el, t) == offset_sec(P, az, el, t, SecEl(t))

\* PointingModel.offset of one (az, el)
offset(P, az, el) == offset_trig(P, az, el, Trig(az, el))

\* PointingModel.offset: the offsets of an array of (az, el)
PointingModel_offset(P, az, el) ==
    np_asarray([i \in DOMAIN az |-> offset(P, az[i], el[i])])

apply_offset(az, el, o) == [az |-> az + o.delta_az, el |-> el + o.delta_el]

\* PointingModel.apply of one (az, el)
apply(P, az, el) == apply_offset(az, el, offset(P, az, el))

\* PointingModel.apply: pointed_az = az + delta_az, pointed_el = el + delta_el
PointingModel_apply(P, az, el) ==
    [az |-> [i \in DOMAIN az |-> apply(P, az[i], el[i]).az],
     el |-> [i \in DOMAIN az |-> apply(P, az[i], el[i]).el]]

\* the sines and cosines of Trig in units of 1/TS
TrigTS(t) == [f \in DOMAIN t |-> RDiv(t[f], 100)]

\* the 2x2 Jacobian [[a, b], [c, d]] of PointingModel._jacobian; r holds
\* the parameters in radians, in units of 1/TS
jacobian_terms(r, s, sec_el, tan_el) ==
    [a |-> TS + Mul(Mul(r[5], s.cos_az), tan_el) + Mul(Mul(r[6], s.sin_az), tan_el)
           + r[12] - Mul(r[13], s.sin_az) + Mul(r[14], s.cos_az)
           - 2 * Mul(r[17], s.sin_2az) + 2 * Mul(r[18], s.cos_2az),
     b |-> Mul(sec_el, Mul(r[3], sec_el) - Mul(r[4], tan_el)
                       + Mul(Mul(r[5], s.sin_az), sec_el)
                       - Mul(Mul(r[6], s.cos_az), sec_el)),
     c |-> - Mul(r[5], s.sin_az) + Mul(r[6], s.cos_az)
           - 2 * Mul(r[15], s.sin_2az) + 2 * Mul(r[16], s.cos_2az)
           - Mul(r[21], s.sin_az) + Mul(r[22], s.cos_az),
     d |-> TS - Mul(r[8], s.sin_el) + r[9] + Mul(r[11], s.cos_el)
           - 8 * Mul(r[19], s.sin_8el) + 8 * Mul(r[20], s.cos_8el)]

jacobian_sec(r, t, sec_el) == jacobian_terms(r, TrigTS(t), sec_el, TanEl(t, sec_el))

jacobian_trig(r, t) == jacobian_sec(r, t, SecEl(t))

\* the parameters as the Jacobian uses them
ParamsTS(P) == [i \in DOMAIN P |-> IF i \in {9, 12} THEN RDiv(P[i], 100) ELSE Rad(P[i])]

\* PointingModel._jacobian of one (az, el)
jacobian(P, az, el) == jacobian_trig(ParamsTS(P), Trig(az, el))

\* the number of iterations of PointingModel.reverse
NewtonSteps == 30

\* tolerance = deg2rad(0.01 / 3600.)
tolerance == ARCSEC \div 100

\* every test passes
sky_error_any(c, b2) == TRUE

\* sky_error < tolerance, for sky_error = sqrt(c ** 2 + b2 ** 2)
sky_error_below(c, b2) ==
    Abs(c) < tolerance /\ Abs(b2) < tolerance /\ c * c + b2 * b2 < tolerance * tolerance

\* one Newton step by Cramer's rule, and whether the residual (b1, b2)
\* is within tolerance
newton_solve(J, b1, b2, cos_el, det_J) ==
    [converged |-> sky_error_below(MulH(b1, cos_el), b2),
     az |-> Div(Mul(b1, J.d) - Mul(b2, J.b), det_J),
     el |-> Div(Mul(b2, J.a) - Mul(b1, J.c), det_J)]

newton_residual(J, pointed_az, pointed_el, el, test) ==
    newton_solve(J, pointed_az - test.az, pointed_el - test.el, CosH(el),
                 Mul(J.a, J.d) - Mul(J.b, J.c))

\* the body of the loop of PointingModel.reverse for one (az, el)
newton_step(P, pointed_az, pointed_el, az, el) ==
    newton_residual(jacobian(P, az, el), pointed_az, pointed_el, el, apply(P, az, el))

\* the state of the loop before its first pass, from the initial guess
\* (pointed_az - P1, pointed_el - P7)
reverse_start(P, pointed_az, pointed_el) ==
    [status |-> "running",
     pointed_az |-> pointed_az, pointed_el |-> pointed_el,
     az |-> np_asarray([i \in DOMAIN pointed_az |-> pointed_az[i] - P[1]]),
     el |-> np_asarray([i \in DOMAIN pointed_el |-> pointed_el[i] - P[7]]),
     iteration |-> 0, within |-> <<>>, warned |-> FALSE]

\* the test and the Newton step of one pass: break when every element is
\* within tolerance, else every element takes its step
newton_update(s, step) ==
    IF np_all([i \in DOMAIN step |-> step[i].converged])
    THEN [s EXCEPT !.status = "returned",
                   !.within = [i \in DOMAIN step |-> step[i].converged]]
    ELSE [s EXCEPT !.az = np_asarray([i \in DOMAIN s.az |-> s.az[i] + step[i].az]),
                   !.el = np_asarray([i \in DOMAIN s.el |-> s.el[i] + step[i].el]),
                   !.iteration = @ + 1,
                   !.within = [i \in DOMAIN step |-> step[i].converged]]

newton_pass(P, s) ==
    newton_update(s, np_asarray([i \in DOMAIN s.az |->
        newton_step(P, s.pointed_az[i], s.pointed_el[i], s.az[i], s.el[i])]))

\* a loop that has no last pass
reverse_pass_on(P, s) == newton_pass(P, s)

\* for iteration in xrange(30): ... else: logger.warning(...); return az, el
reverse_pass(P, s) ==
    IF s.iteration = NewtonSteps
    THEN [s EXCEPT !.status = "returned", !.warned = TRUE]
    ELSE newton_pass(P, s)

\* the passes made so far and the next one, while the loop runs and has
\* made fewer than fuel passes
reverse_next(P, acc, fuel) ==
    IF acc[Len(acc)].status = "returned" \/ Len(acc) > fuel THEN acc
    ELSE Append(acc, reverse_pass(P, acc[Len(acc)]))

\* the passes of the loop, four at a time
RECURSIVE reverse_loop(_, _, _)
reverse_loop(P, acc, fuel) ==
    IF acc[Len(acc)].status = "returned" \/ Len(acc) > fuel THEN acc
    ELSE reverse_loop(P, reverse_next(P, reverse_next(P, reverse_next(P,
                             reverse_next(P, acc, fuel), fuel), fuel), fuel), fuel)

\* the states of the loop from s on, pass after pass, as far as fuel passes
reverse_passes(P, s, fuel) == reverse_loop(P, <<s>>, fuel)

\* return az, el
reverse_return(s) ==
    [az |-> s.az, el |-> s.el, iterations |-> s.iteration, warned |-> s.warned]

\* the state in which the loop is left
reverse_last(passes) == reverse_return(passes[Len(passes)])

\* PointingModel.reverse, from the initial guess (pointed_az - P1,
\* pointed_el - P7)
PointingModel_reverse(P, pointed_az, pointed_el) ==
    reverse_last(reverse_passes(P, reverse_start(P, pointed_az, pointed_el),
                                NewtonSteps + 1))

---------------------------------------------------------------------------
(* RefractionCorrection (model 'VLBI Field System').  Elevations are       *)
(* arrays of mas; a weather record holds the temperature in degrees C, the *)
(* pressure in hPa and the relative humidity in percent, as integers; the  *)
(* weather argument is an array of one record (a scalar, broadcast) or of  *)
(* one record per elevation.                                               *)

\* rhumi = (100. - humidity_percent) * 0.9
rhumi_of(humidity) == Mul((100 - humidity) * TS, 900000)

\* dewpt = temperature_C - rhumi * (0.136667 + rhumi * 1.33333e-3
\*                                  + temperature_C * 1.5e-3)
dewpt_of(temperature, rhumi) ==
    temperature - Mul(rhumi, 136667 + RDiv(Mul(rhumi, 1333330), 1000)
                             + Mul(temperature, 1500))

\* pp = p[0] + p[1] * dewpt + p[2] * dewpt ** 2 + p[3] * dewpt ** 3
\*      + p[4] * dewpt ** 4, in powers of t = dewpt / 100
pp_of(dewpt, t) ==
    4586750 + Mul(322009, dewpt)
    + Mul(Mul(t, t), 103452000 + Mul(t, 274777000 + Mul(t, 157115000)))

\* sn / 1000 for sn = 77.6 * (pressure_hPa + (4810.0 * cvt * pp) / temp_K)
\*                    / temp_K, cvt = 1.33289
sn_of(pressure, temp_K, pp) ==
    Div(Mul(77600000, pressure * 1000 + Div(Mul(Mul(4810000, 1332890), pp), temp_K)),
        temp_K)

sn_dewpt(temperature, pressure, dewpt) ==
    sn_of(pressure, temperature + 273 * TS, pp_of(dewpt, RDiv(dewpt, 100)))

\* the refractivity term of refraction_offset_vlbi for one weather record
Refractivity(w) ==
    sn_dewpt(w.temperature * TS, w.pressure,
             dewpt_of(w.temperature * TS, rhumi_of(w.humidity)))

\* a clip at half a degree
ElClip_half(el) == Clip(el, DEG \div 2, DEG90)

\* el_deg = np.clip(rad2deg(el), 1.0, 90.0), as an angle
ElClip(el) == Clip(el, DEG, DEG90)

\* a / (1 + b) ** c for a = 40., b = 2.7, c = 4., as an angle
Aphi1 == Div(40 * DEG, Mul(Mul(3700000, 3700000), Mul(3700000, 3700000)))

\* aphi = a / ((el_deg + b) ** c), as an angle: Aphi1 * w ** 4 for the
\* ratio w = (1 + b) / (el_deg + b)
aphi_of(w2) == MulH(Aphi1, MulH(w2, w2))

\* d / (1 + e) ** f for d = 42.5, e = 0.4, f = 2.64
Dele1 == Div(42500000, RDiv(PowH(14 * (HS \div 10), 264 * (HS \div 100)), 100))

\* dele = -d / ((el_deg + e) ** f): - Dele1 * v ** f for the ratio
\* v = (1 + e) / (el_deg + e)
dele_of(v) == - MulH(Dele1, PowH(v, 264 * (HS \div 100)))

\* tan(deg2rad(90.0 - el_deg))
TanZenith(el) == DivSmall(CosH(el), SinH(el))

\* deg2rad(bphi * sn - aphi) for bphi = g * (tan(zenith) + dele),
\* g = 0.57295787e-4 degrees (1000 g = 206265 mas)
offset_clipped(el, sn) ==
    Mul(Mul(TanZenith(el) + dele_of(DivH(DEG + 4 * (DEG \div 10), el + 4 * (DEG \div 10))),
            sn), 206265)
    - aphi_of(MulH(DivH(DEG + 27 * (DEG \div 10), el + 27 * (DEG \div 10)),
                   DivH(DEG + 27 * (DEG \div 10), el + 27 * (DEG \div 10))))

\* refraction_offset_vlbi of one elevation
refraction_offset(el, w) == offset_clipped(ElClip(el), Refractivity(w))

\* the weather of element i: numpy broadcasts a scalar
Weather(w, i) == w[IF Len(w) = 1 THEN 1 ELSE i]

\* refraction_offset_vlbi
refraction_offset_vlbi(el, w) ==
    np_asarray([i \in DOMAIN el |-> refraction_offset(el[i], Weather(w, i))])

\* RefractionCorrection.apply: el + self.offset(el, ...)
RefractionCorrection_apply(el, w) ==
    np_asarray([i \in DOMAIN el |-> el[i] + refraction_offset(el[i], Weather(w, i))])

\* the number of iterations of RefractionCorrection.reverse
BisectionSteps == 40

\* the bounds with lower and upper exchanged
bounds_swapped(test_el, refracted_el, el, lower, upper, iterable) ==
    [lower |-> [i \in DOMAIN el |-> IF test_el[i] < refracted_el[i] THEN lower[i] ELSE el[i]],
     upper |-> [i \in DOMAIN el |-> IF test_el[i] < refracted_el[i] THEN el[i] ELSE upper[i]]]

\* the new bounds of the bisection: "if test_el < refracted_el: lower = el
\* else: upper = el" for a scalar, the two np.where for an array
bounds(test_el, refracted_el, el, lower, upper, iterable) ==
    [lower |-> [i \in DOMAIN el |-> IF test_el[i] < refracted_el[i] THEN el[i] ELSE lower[i]],
     upper |-> [i \in DOMAIN el |->
                   IF iterable THEN (IF test_el[i] > refracted_el[i] THEN el[i] ELSE upper[i])
                   ELSE (IF test_el[i] < refracted_el[i] THEN upper[i] ELSE el[i])]]

\* lower and upper with the factor 4 of the lower bound left out
bisect_start_close(refracted_el, w, iterable, close_offset) ==
    [status |-> "running", refracted_el |-> refracted_el, w |-> w, iterable |-> iterable,
     lower |-> np_asarray([i \in DOMAIN refracted_el |->
                              refracted_el[i] - Abs(close_offset[i])]),
     upper |-> np_asarray([i \in DOMAIN refracted_el |-> refracted_el[i] + ARCSEC]),
     el |-> <<>>, test_el |-> <<>>, iteration |-> 0, warned |-> FALSE]

\* a search that starts from what the last search on the instance returned
bisect_start_warm(refracted_el, w, iterable, close_offset) ==
    [status |-> "running", refracted_el |-> refracted_el, w |-> w, iterable |-> iterable,
     lower |-> np_asarray([i \in DOMAIN refracted_el |->
                  IF call.op = "RefractionCorrection.reverse" THEN call.res.el[i]
                  ELSE refracted_el[i] - 4 * Abs(close_offset[i])]),
     upper |-> np_asarray([i \in DOMAIN refracted_el |-> refracted_el[i] + ARCSEC]),
     el |-> <<>>, test_el |-> <<>>, iteration |-> 0, warned |-> FALSE]

\* the state of the loop before its first pass:
\* lower = refracted_el - 4 * np.abs(close_offset),
\* upper = refracted_el + deg2rad(1. / 3600.)
bisect_start(refracted_el, w, iterable, close_offset) ==
    [status |-> "running", refracted_el |-> refracted_el, w |-> w, iterable |-> iterable,
     lower |-> np_asarray([i \in DOMAIN refracted_el |->
                              refracted_el[i] - 4 * Abs(close_offset[i])]),
     upper |-> np_asarray([i \in DOMAIN refracted_el |-> refracted_el[i] + ARCSEC]),
     el |-> <<>>, test_el |-> <<>>, iteration |-> 0, warned |-> FALSE]

\* el = 0.5 * (lower + upper)
midpoint(lower, upper) ==
    np_asarray([i \in DOMAIN lower |-> (lower[i] + upper[i]) \div 2])

\* the test of one pass, and the new bounds when it fails
bisect_update(s, el, test_el, b) ==
    IF np_all([i \in DOMAIN el |-> Abs(test_el[i] - s.refracted_el[i]) < tolerance])
    THEN [s EXCEPT !.status = "returned", !.el = el, !.test_el = test_el]
    ELSE [s EXCEPT !.el = el, !.test_el = test_el,
                   !.lower = np_asarray(b.lower), !.upper = np_asarray(b.upper),
                   !.iteration = @ + 1]

bisect_try(s, el, test_el) ==
    bisect_update(s, el, test_el,
                  bounds(test_el, s.refracted_el, el, s.lower, s.upper, s.iterable))

\* for iteration in xrange(40): ... else: logger.warning(...); return el
bisect_pass(s) ==
    IF s.iteration = BisectionSteps
    THEN [s EXCEPT !.status = "returned", !.warned = TRUE]
    ELSE bisect_try(s, midpoint(s.lower, s.upper),
                    np_asarray(RefractionCorrection_apply(midpoint(s.lower, s.upper), s.w)))

\* the passes made so far and the next one, while the loop runs and has
\* made fewer than fuel passes
bisect_next(acc, fuel) ==
    IF acc[Len(acc)].status = "returned" \/ Len(acc) > fuel THEN acc
    ELSE Append(acc, bisect_pass(acc[Len(acc)]))

\* the passes of the loop, four at a time
RECURSIVE bisect_loop(_, _)
bisect_loop(acc, fuel) ==
    IF acc[Len(acc)].status = "returned" \/ Len(acc) > fuel THEN acc
    ELSE bisect_loop(bisect_next(bisect_next(bisect_next(bisect_next(acc, fuel), fuel),
                                             fuel), fuel), fuel)

\* the states of the loop from s on, pass after pass, as far as fuel passes
bisect_passes(s, fuel) == bisect_loop(<<s>>, fuel)

\* return el
bisect_return(s) == [el |-> s.el, iterations |-> s.iteration, warned |-> s.warned]

\* the state in which the loop is left
bisect_last(passes) == bisect_return(passes[Len(passes)])

reverse_from(refracted_el, w, iterable, close_offset) ==
    bisect_last(bisect_passes(bisect_start(refracted_el, w, iterable, close_offset),
                              BisectionSteps + 1))

\* RefractionCorrection.reverse; iterable is is_iterable(refracted_el)
RefractionCorrection_reverse(refracted_el, w, iterable) ==
    reverse_from(refracted_el, w, iterable, refraction_offset_vlbi(refracted_el, w))

---------------------------------------------------------------------------
(* PointingModel: construction from and conversion to the description      *)
(* string.  A description is the sequence of its comma-separated tokens.   *)

\* the token '0'
ZeroToken == [kind |-> "0"]

\* str(ephem.degrees): 'D:MM:SS.S' of n tenths of an arcsecond, with the
\* sign of the angle ('-0:00:00.0' is printed for a small negative angle)
Sexagesimal(neg, n) ==
    [kind |-> "D:MM:SS.S", neg |-> neg, d |-> n \div 36000,
     m |-> (n % 36000) \div 600, s |-> (n % 600) \div 10, f |-> n % 10]

\* the angle str(ephem.degrees) prints, cut off instead of rounded
DegreesStrCut(a) == Sexagesimal(a < 0, Abs(a) \div 100)

\* str(ephem.degrees(a)): the angle rounded to 0.1 arcsec
DegreesStr(a) == Sexagesimal(a < 0, RDiv(Abs(a), 100))

\* '%.9g' % v: the scale factor v (in units of 1/HS) to 9 significant digits
FormatG(v) ==
    [kind |-> "%.9g",
     v |-> IF Abs(v) >= 1000 * TS THEN Sign(v) * 10 * ((Abs(v) + 5) \div 10) ELSE v]

\* PointingModel.param_str
param_str(P, param) ==
    IF P[param] = 0 THEN ZeroToken
    ELSE IF param \in {9, 12} THEN FormatG(P[param])
    ELSE DegreesStr(Wrap(P[param]))

\* PointingModel.description: ', '.join of the 22 parameter strings
description(P) == [p \in 1..num_params |-> param_str(P, p)]

\* ephem.degrees(token) of a string: a number of degrees, or D:MM:SS.S;
\* for P9 and P12 the constructor takes the conversion to radians back
ParseToken(tok) ==
    CASE tok.kind = "0" -> 0
      [] tok.kind = "%.9g" -> tok.v
      [] tok.kind = "D:MM:SS.S" ->
            (IF tok.neg THEN -1 ELSE 1)
            * (((tok.d * 60 + tok.m) * 60 + tok.s) * 10 + tok.f) * (ARCSEC \div 10)

\* PointingModel.__init__(params) for a string params and strict=True
PointingModel_init(tokens) ==
    IF Len(tokens) # num_params
    THEN [raised |-> "ValueError: Pointing model expects exactly 22 parameters",
          params |-> <<>>]
    ELSE [raised |-> "", params |-> [p \in 1..Len(tokens) |-> ParseToken(tokens[p])]]

---------------------------------------------------------------------------
(* PointingModel.fit: linear least squares on the design matrix of the     *)
(* enabled parameters.  The parameter 1.0 of a basis function is HS.       *)

\* self.params[:] = 0.0; self.params[param - 1] = 1.0
UnitParams(param) == [i \in 1..num_params |-> IF i = param THEN HS ELSE 0]

\* np.hstack((d_az * cos_el / sigma_daz, d_el / sigma_del)) for the default
\* sigma_daz = sigma_del = np.ones(...); o holds the offsets (d_az, d_el)
Stacked(o, el) ==
    [n \in 1..(2 * Len(o)) |->
        IF n <= Len(o) THEN MulH(o[n].delta_az, CosH(el[n]))
        ELSE o[n - Len(o)].delta_el]

\* A[:, m]: the weighted basis function of one enabled parameter
Column(param, az, el) == Stacked(PointingModel_offset(UnitParams(param), az, el), el)

\* np.dot(u, v) / N of two columns of N rows
RECURSIVE DotSum(_, _, _)
DotSum(u, v, n) == IF n = 0 THEN 0 ELSE MulH(u[n], v[n]) + DotSum(u, v, n - 1)

Dot(u, v) == RDiv(DotSum(u, v, Len(u)), Len(u))

\* the smallest determinant of the normal equations the model's arithmetic
\* solves to its resolution
CondMin == HS \div 10

\* the solution the division by the singular values s gives when A has not
\* full column rank: not finite
NonFinite(kind) == [finite |-> FALSE, kind |-> kind, det |-> 0, x |-> <<>>]

Solution(det, x) == [finite |-> TRUE, kind |-> "", det |-> det, x |-> x]

\* a quotient of the solution; beyond the model's range it is HUGE
Quot(num, det) ==
    IF Abs(num) \div Abs(det) >= 10 THEN Sign(num) * Sign(det) * HUGE
    ELSE Sign(num) * Sign(det) * DivH(Abs(num), Abs(det))

\* the solution of one column with the second column ignored
solve2_diagonal(S11, S12, S22, t1, t2, kind) ==
    IF S11 = 0 \/ S22 = 0 THEN NonFinite(kind)
    ELSE Solution(MulH(S11, S22), <<Quot(t1, S11), Quot(t2, S22)>>)

\* np.dot(Vt.T, np.dot(U.T, b) / s) for M = 2: the least-squares solution
\* of the normal equations [[S11, S12], [S12, S22]] x = (t1, t2)
solve2(S11, S12, S22, t1, t2, kind) ==
    IF MulH(S11, S22) - MulH(S12, S12) <= 0 THEN NonFinite(kind)
    ELSE Solution(MulH(S11, S22) - MulH(S12, S12),
                  <<Quot(MulH(t1, S22) - MulH(t2, S12), MulH(S11, S22) - MulH(S12, S12)),
                    Quot(MulH(t2, S11) - MulH(t1, S12), MulH(S11, S22) - MulH(S12, S12))>>)

\* the same for M = 1
solve1(S11, t1, kind) ==
    IF S11 = 0 THEN NonFinite(kind) ELSE Solution(S11, <<Quot(t1, S11)>>)

\* the largest entry and the least pivot the elimination's arithmetic holds
RangeMax == HS

PivotMin == HS \div 1000

\* np.dot(A.T, A) / N, each row followed by its right-hand sides
NormalRows(A, rhs) ==
    np_asarray([i \in DOMAIN A |->
        np_asarray([j \in 1..(Len(A) + Len(rhs[i])) |->
            IF j <= Len(A) THEN Dot(A[i], A[j]) ELSE rhs[i][j - Len(A)]])])

InRange(rows) ==
    /\ \A i \in DOMAIN rows : \A j \in DOMAIN rows[i] : Abs(rows[i][j]) <= RangeMax
    /\ rows[1][1] >= PivotMin
    /\ \A i \in DOMAIN rows : Abs(rows[i][1]) \div rows[1][1] < 10

\* a row with the first unknown eliminated by the first row
reduce_row(first, row) ==
    np_asarray([j \in 1..(Len(row) - 1) |->
        row[j + 1] - MulH(Quot(row[1], first[1]), first[j + 1])])

reduce(rows) ==
    np_asarray([i \in 1..(Len(rows) - 1) |-> reduce_row(rows[1], rows[i + 1])])

RECURSIVE SumProd(_, _, _, _)
SumProd(first, xs, k, j) ==
    IF j = 0 THEN 0 ELSE MulH(first[j + 1], xs[j][k]) + SumProd(first, xs, k, j - 1)

\* the first unknown of every right-hand side, from the unknowns xs after it
back_row(first, xs) ==
    np_asarray([k \in 1..(Len(first) - Len(xs) - 1) |->
        Quot(first[Len(xs) + 1 + k] - SumProd(first, xs, k, Len(xs)), first[1])])

gauss_back(first, sub, x1) ==
    IF \E k \in DOMAIN x1 : Abs(x1[k]) > HS
    THEN [state |-> "range", det |-> 0, x |-> <<>>]
    ELSE [state |-> "ok", det |-> Min(first[1], sub.det), x |-> <<x1>> \o sub.x]

\* the solutions x[m][k] of the normal equations for every right-hand side
\* k: singular when a pivot vanishes, out of the model's range when the
\* arithmetic cannot hold an entry
RECURSIVE gauss(_)
RECURSIVE gauss_next(_, _)
gauss(rows) ==
    IF rows = <<>> THEN [state |-> "ok", det |-> HS, x |-> <<>>]
    ELSE IF rows[1][1] <= 0 THEN [state |-> "singular", det |-> 0, x |-> <<>>]
    ELSE IF ~InRange(rows) THEN [state |-> "range", det |-> 0, x |-> <<>>]
    ELSE gauss_next(rows[1], gauss(reduce(rows)))

gauss_next(first, sub) ==
    IF sub.state # "ok" THEN sub ELSE gauss_back(first, sub, back_row(first, sub.x))

\* np.dot(Vt.T, np.dot(U.T, b) / s) for M > 2
solveN(g, M, kind) ==
    IF g.state = "singular" THEN NonFinite(kind)
    ELSE IF g.state = "range" THEN Solution(0, [m \in 1..M |-> HUGE])
    ELSE Solution(g.det, [m \in 1..M |-> g.x[m][1]])

\* the least-squares solution of A x = b for the columns A of the enabled
\* parameters
lstsq(A, b, kind) ==
    IF Len(A) = 1 THEN solve1(Dot(A[1], A[1]), Dot(A[1], b), kind)
    ELSE IF Len(A) = 2
    THEN solve2(Dot(A[1], A[1]), Dot(A[1], A[2]), Dot(A[2], A[2]),
                Dot(A[1], b), Dot(A[2], b), kind)
    ELSE solveN(gauss(NormalRows(A, [i \in DOMAIN A |-> <<Dot(A[i], b)>>])), Len(A), kind)

\* the enabled parameters with P2 and P10 left in
Enabled_all(e) == e

\* the enabled parameters without P2 and P10, in increasing order
RECURSIVE Enabled(_)
Enabled(e) ==
    IF e = <<>> THEN <<>>
    ELSE IF Head(e) \in {2, 10} THEN Enabled(Tail(e))
    ELSE <<Head(e)>> \o Enabled(Tail(e))

\* self.params[enabled_params - 1] = np.dot(Vt.T, np.dot(U.T, b) / s)
fit_assign(enabled, sol) ==
    [finite |-> sol.finite, kind |-> sol.kind, det |-> sol.det,
     params |-> [i \in 1..num_params |->
                    IF \E m \in DOMAIN enabled : enabled[m] = i
                    THEN (IF sol.finite
                          THEN sol.x[CHOOSE m \in DOMAIN enabled : enabled[m] = i]
                          ELSE HUGE)
                    ELSE 0]]

\* the design matrix A, column by column
Columns(enabled, az, el) ==
    np_asarray([m \in DOMAIN enabled |-> np_asarray(Column(enabled[m], az, el))])

fit_enabled(az, el, delta, enabled, kind) ==
    IF enabled = <<>> THEN [finite |-> TRUE, kind |-> "", det |-> HS, params |-> Zeros]
    ELSE fit_assign(enabled,
                    lstsq(Columns(enabled, az, el), np_asarray(Stacked(delta, el)), kind))

\* PointingModel.fit(az, el, delta_az, delta_el, enabled_params=...); kind
\* is what a division 0 / 0 or x / 0 by a zero singular value leaves
PointingModel_fit(az, el, delta, enabled_params, kind) ==
    fit_enabled(az, el, delta, Enabled(enabled_params), kind)

---------------------------------------------------------------------------
(* Callers of PointingModel.apply and PointingModel.reverse *)

\* the pointing models k = 1..NumModels of the callers
NumModels == 3

\* azimuths -185 + 455 k / AzSteps degrees, k <= AzSteps
AzSteps == 7

\* elevations 85 k / ElSteps degrees, k <= ElSteps
ElSteps == 4

\* a small angle: 20 arcmin (param_stdev of the tests)
SmallAngle == 20 * 60 * ARCSEC

\* model k: every parameter is -20, 0 or +20 arcmin (P9 and P12: as many
\* radians)
ModelParams(k) ==
    [i \in 1..num_params |->
        (((i * k + k) % 3) - 1) * (IF i \in {9, 12} THEN RadH(SmallAngle) ELSE SmallAngle)]

Models == {ModelParams(k) : k \in 1..NumModels}

GridAz == {-185 * DEG + ((k * 455 * 3600) \div AzSteps) * ARCSEC : k \in 0..AzSteps}

GridEl == {((k * 85 * 3600) \div ElSteps) * ARCSEC : k \in 0..ElSteps}

\* an array of n <= 2 grid values: a and its mirror image in the grid
GridArray(a, n) == IF n = 1 THEN <<a>> ELSE <<a, 85 * DEG - a>>

PMCall(op, az, el, res) == [op |-> op, az |-> az, el |-> el, res |-> res]

\* a caller corrects an array of requested directions
Apply ==
    \E az \in GridAz, el \in GridEl, n \in 1..2 :
        /\ call = NoCall
        /\ call' = PMCall("PointingModel.apply", GridArray(az, n), GridArray(el, n),
                          PointingModel_apply(params, GridArray(az, n), GridArray(el, n)))
        /\ prev' = NoCall
        /\ UNCHANGED params

\* a caller undoes the correction it was returned (test_pointing_closure)
Reverse ==
    /\ call.op = "PointingModel.apply"
    /\ call' = PMCall("PointingModel.reverse", call.res.az, call.res.el,
                      PointingModel_reverse(params, call.res.az, call.res.el))
    /\ prev' = call
    /\ UNCHANGED params

InitPM == call = NoCall /\ prev = NoCall /\ params \in Models

NextPM == Apply \/ Reverse

SpecPM == InitPM /\ [][NextPM]_vars

\* 1e-6 rad and 1e-7 rad, as angles
AzTol == RadToMas(1)
ElTol == RadToMas(1) \div 10

\* C2: PointingModel.reverse of what PointingModel.apply returned for a
\* grid direction (az, el) returns (az, el) again, the azimuth modulo 2 pi
\* to 1e-6 rad and the elevation to 1e-7 rad, without a warning
C2_PointingClosure ==
    (call.op = "PointingModel.reverse" /\ prev.op = "PointingModel.apply") =>
        /\ ~call.res.warned
        /\ \A i \in DOMAIN prev.az :
               /\ Abs(Wrap(call.res.az[i] - prev.az[i])) <= AzTol
               /\ Abs(call.res.el[i] - prev.el[i]) <= ElTol

\* reverse took Newton steps to return to a direction at 85 degrees
\* elevation that apply had moved by more than a degree
C2_Witness ==
    /\ call.op = "PointingModel.reverse"
    /\ prev.op = "PointingModel.apply"
    /\ prev.el[1] = 85 * DEG
    /\ Abs(prev.res.az[1] - prev.az[1]) > DEG
    /\ call.res.iterations >= 2
    /\ Abs(Wrap(call.res.az[1] - prev.az[1])) <= AzTol
    /\ Abs(call.res.el[1] - prev.el[1]) <= ElTol

---------------------------------------------------------------------------
(* Callers of RefractionCorrection.apply and RefractionCorrection.reverse *)

\* elevations 90 k / RefrSteps degrees, k <= RefrSteps
RefrSteps == 6

\* the elevations of the callers: the steps, and the elevations at and
\* below the clip at 1 degree
RefrEls == {((k * 90 * 3600) \div RefrSteps) * ARCSEC : k \in 0..RefrSteps}
               \cup {DEG \div 2, DEG}

\* the corners of the realistic weather ranges
WeatherSet ==
    {[temperature |-> t, pressure |-> p, humidity |-> h] :
        t \in {-10, 40}, p \in {900, 1100}, h \in {5, 95}}

\* the opposite corner
OtherWeather(w) ==
    [temperature |-> 30 - w.temperature, pressure |-> 2000 - w.pressure,
     humidity |-> 100 - w.humidity]

RCCall(op, el, w, iterable, res) ==
    [op |-> op, el |-> el, w |-> w, iterable |-> iterable, res |-> res]

\* a caller refracts a scalar elevation, an array of elevations in one
\* weather, or an array of elevations each in its weather
RefractionApply ==
    \E el \in RefrEls, w \in WeatherSet, n \in 1..2, nw \in 1..2 :
        /\ call = NoCall
        /\ nw <= n
        /\ call' = RCCall("RefractionCorrection.apply",
                          IF n = 1 THEN <<el>> ELSE <<el, DEG90 - el>>,
                          IF nw = 1 THEN <<w>> ELSE <<w, OtherWeather(w)>>,
                          n = 2,
                          RefractionCorrection_apply(
                              IF n = 1 THEN <<el>> ELSE <<el, DEG90 - el>>,
                              IF nw = 1 THEN <<w>> ELSE <<w, OtherWeather(w)>>))
        /\ prev' = NoCall
        /\ UNCHANGED params

\* a caller undoes the refraction it was returned (test_refraction_closure)
RefractionReverse ==
    /\ call.op = "RefractionCorrection.apply"
    /\ call' = RCCall("RefractionCorrection.reverse", call.res, call.w, call.iterable,
                      RefractionCorrection_reverse(call.res, call.w, call.iterable))
    /\ prev' = call
    /\ UNCHANGED params

NextRC == RefractionApply \/ RefractionReverse

SpecRC == InitProj /\ [][NextRC]_vars

\* C3: RefractionCorrection.reverse of what apply returned for an
\* elevation in [0, 90] degrees, in the same weather, returns the elevation
\* again to 1e-7 rad without a warning, for a scalar, for an array in one
\* weather and for an array with one weather per elevation
C3_RefractionClosure ==
    (call.op = "RefractionCorrection.reverse" /\ prev.op = "RefractionCorrection.apply") =>
        /\ ~call.res.warned
        /\ \A i \in DOMAIN prev.el : Abs(call.res.el[i] - prev.el[i]) <= ElTol

\* the bisection returned to an array of elevations, one of them below the
\* clip at 1 degree, each in its weather
C3_Witness ==
    /\ call.op = "RefractionCorrection.reverse"
    /\ prev.op = "RefractionCorrection.apply"
    /\ Len(prev.el) = 2
    /\ Len(prev.w) = 2
    /\ prev.el[1] = DEG \div 2
    /\ prev.res[1] > prev.el[1] + 1000 * ARCSEC
    /\ call.res.iterations >= 10
    /\ \A i \in DOMAIN prev.el : Abs(call.res.el[i] - prev.el[i]) <= ElTol

---------------------------------------------------------------------------
(* Callers saving a pointing model as its description and loading it *)

\* parameter values: zero, angles below and at the 0.05 arcsec that print
\* as 0.1 arcsec, angles between two printed values, beyond 180 degrees and
\* at its ends, and a value of ten digits
DescValues ==
    {0, 30, -30, 49, 50, -50, 123456, -SmallAngle, 200 * DEG, DEG180 - 20, -DEG180,
     1234567 * 1000 + 891}

\* a caller constructs a model from a sequence of parameters
Construct ==
    \E k \in 1..NumModels, i \in 1..num_params, v \in DescValues :
        /\ call = NoCall
        /\ params' = [ModelParams(k) EXCEPT ![i] = v]
        /\ call' = [op |-> "PointingModel(params)"]
        /\ prev' = NoCall

\* a caller constructs a second model from the description of the model
\* (test_pointing_model_load_save)
Load ==
    /\ call.op = "PointingModel(params)"
    /\ call' = [op |-> "PointingModel(description)", description |-> description(params),
                res |-> PointingModel_init(description(params))]
    /\ prev' = call
    /\ UNCHANGED params

NextDesc == Construct \/ Load

SpecDesc == InitProj /\ [][NextDesc]_vars

\* the parameters the description resolves: zero, a scale factor, or an
\* angle that is printed neither as 0:00:00.0 nor as 180:00:00.0
Printable(P) ==
    \A i \in DOMAIN P :
        \/ P[i] = 0
        \/ i \in {9, 12}
        \/ Abs(Wrap(P[i])) >= ARCSEC \div 20 /\ Wrap(P[i]) < DEG180 - ARCSEC \div 20

---------------------------------------------------------------------------
(* Callers fitting a pointing model to offsets *)

\* the first FitPoints sample directions are fitted
FitPoints == 3

\* the enabled_params of the callers
EnabledSets ==
    {<<>>, <<1>>, <<3>>, <<7>>, <<8>>, <<1, 3>>, <<3, 4>>, <<5, 6>>, <<1, 7>>, <<2, 7>>,
     <<7, 8>>, <<4, 10>>}

\* the values of the enabled parameters of the model that made the offsets
FitValues == {-SmallAngle, 0, 777777}

SampleAz(n) == [j \in 1..n |-> (((j * 130) % 360) - 100) * DEG]

SampleEl(n) == [j \in 1..n |-> (((j - 1) * 35) % 80) * DEG]

\* the model that made the offsets: v1 and v2 at the enabled parameters
SourceParams(e, v1, v2) ==
    [i \in 1..num_params |->
        IF Len(e) >= 1 /\ i = e[1] THEN v1
        ELSE IF Len(e) >= 2 /\ i = e[2] THEN v2 ELSE 0]

FitCall(enabled, source, az, el, kind) ==
    [op |-> "PointingModel.fit", enabled |-> Enabled(enabled), source |-> source,
     az |-> az, el |-> el,
     res |-> PointingModel_fit(az, el, PointingModel_offset(source, az, el), enabled, kind)]

\* a caller fits the model to the offsets of a known model (test_pointing_fit)
Fit ==
    \E enabled \in EnabledSets, v1 \in FitValues, v2 \in FitValues, n \in 1..FitPoints,
       kind \in {"nan", "inf"} :
        /\ call = NoCall
        /\ call' = FitCall(enabled, SourceParams(Enabled(enabled), v1, v2),
                           SampleAz(n), SampleEl(n), kind)
        /\ params' = call'.res.params
        /\ prev' = NoCall

NextFit == Fit

SpecFit == InitPM /\ [][NextFit]_vars

\* the rounding error of the model's least-squares solution
FitTol == ARCSEC \div 100

IsEnabled(c, i) == \E m \in DOMAIN c.enabled : c.enabled[m] = i

---------------------------------------------------------------------------
(* Callers of the batched inverses *)

\* a caller undoes the pointing correction of an array of two directions
BatchPointingReverse ==
    \E az \in GridAz, el \in GridEl :
        /\ call = NoCall
        /\ call' = PMCall("PointingModel.reverse", GridArray(az, 2), GridArray(el, 2),
                          PointingModel_reverse(params, GridArray(az, 2), GridArray(el, 2)))
        /\ prev' = NoCall
        /\ UNCHANGED params

\* the caller repeats the call for one direction of the array alone
ScalarPointingReverse ==
    \E i \in 1..2 :
        /\ call.op = "PointingModel.reverse"
        /\ prev = NoCall
        /\ call' = PMCall("PointingModel.reverse", <<call.az[i]>>, <<call.el[i]>>,
                          PointingModel_reverse(params, <<call.az[i]>>, <<call.el[i]>>))
        /\ prev' = [call EXCEPT !.op = "batch", !.res = [az |-> <<call.res.az[i]>>,
                                                         el |-> <<call.res.el[i]>>]]
        /\ UNCHANGED params

\* a caller undoes the refraction of an array of two elevations
BatchRefractionReverse ==
    \E el \in RefrEls, w \in WeatherSet, nw \in 1..2 :
        /\ call = NoCall
        /\ call' = RCCall("RefractionCorrection.reverse", <<el, DEG90 - el>>,
                          IF nw = 1 THEN <<w>> ELSE <<w, OtherWeather(w)>>, TRUE,
                          RefractionCorrection_reverse(
                              <<el, DEG90 - el>>,
                              IF nw = 1 THEN <<w>> ELSE <<w, OtherWeather(w)>>, TRUE))
        /\ prev' = NoCall
        /\ UNCHANGED params

\* the caller repeats the call for one elevation of the array alone
ScalarRefractionReverse ==
    \E i \in 1..2 :
        /\ call.op = "RefractionCorrection.reverse"
        /\ prev = NoCall
        /\ call' = RCCall("RefractionCorrection.reverse", <<call.el[i]>>,
                          <<Weather(call.w, i)>>, FALSE,
                          RefractionCorrection_reverse(<<call.el[i]>>,
                                                       <<Weather(call.w, i)>>, FALSE))
        /\ prev' = [call EXCEPT !.op = "batch", !.res = [el |-> <<call.res.el[i]>>]]
        /\ UNCHANGED params

NextBatch ==
    \/ BatchPointingReverse
    \/ ScalarPointingReverse
    \/ BatchRefractionReverse
    \/ ScalarRefractionReverse

SpecBatch == InitPM /\ [][NextBatch]_vars

\* C10: the value a batched reverse returns for element i is the value the
\* scalar reverse returns for element i alone (prev holds what the batched
\* call returned for the element that call repeats)
C10_BatchIndependent ==
    /\ (call.op = "PointingModel.reverse" /\ prev # NoCall) =>
           (call.res.az = prev.res.az /\ call.res.el = prev.res.el)
    /\ (call.op = "RefractionCorrection.reverse" /\ prev # NoCall) =>
           call.res.el = prev.res.el
---------------------------------------------------------------------------
(* PointingModel.__init__: construction from a sequence of numbers or from *)
(* a string.  A string is the sequence of its items: the tokens of the     *)
(* parameter values and the separator characters ',' and ' '.              *)

Comma == [kind |-> ","]

Space == [kind |-> " "]

\* the separator of a style: ',', ', ' or ' '
Separator(style) ==
    CASE style = "," -> <<Comma>>
      [] style = ", " -> <<Comma, Space>>
      [] style = " " -> <<Space>>

\* the i-th character of the tokens joined by the separator sep
JoinAt(tokens, sep, i) ==
    IF (i - 1) % (1 + Len(sep)) = 0 THEN tokens[((i - 1) \div (1 + Len(sep))) + 1]
    ELSE sep[(i - 1) % (1 + Len(sep))]

\* 'a,b,c', 'a, b, c' or 'a b c' for the tokens a, b, c
Join(tokens, style) ==
    IF Len(tokens) <= 1 THEN tokens
    ELSE np_asarray([i \in 1..(Len(tokens) + (Len(tokens) - 1) * Len(Separator(style))) |->
                        JoinAt(tokens, Separator(style), i)])

\* where the pieces of a text start: after whitespace or at the start
PieceStarts(text) ==
    {i \in DOMAIN text : text[i] # Space /\ (i = 1 \/ text[i - 1] = Space)}

\* where the pieces of a text end: before whitespace or at the end
PieceEnds(text) ==
    {i \in DOMAIN text : text[i] # Space /\ (i = Len(text) \/ text[i + 1] = Space)}

\* the n-th smallest member of a set of numbers
Nth(S, n) == CHOOSE i \in S : Cardinality({j \in S : j < i}) = n - 1

\* params.split(): the pieces between runs of whitespace
split(text) ==
    np_asarray([n \in 1..Cardinality(PieceStarts(text)) |->
                   SubSeq(text, Nth(PieceStarts(text), n), Nth(PieceEnds(text), n))])

\* p.strip(', '): commas (and spaces) are taken off both ends of a piece
RECURSIVE strip(_)
strip(p) ==
    IF p = <<>> THEN p
    ELSE IF Head(p) = Comma THEN strip(Tail(p))
    ELSE IF p[Len(p)] = Comma THEN strip(SubSeq(p, 1, Len(p) - 1))
    ELSE p

\* ephem.degrees(p) of a piece: the value of a single token.  A piece that
\* still holds commas is not an angle: the library, by its version, raises
\* ValueError or reads the number at its start (ephem = "raise", "first").
ephem_degrees(p, ephem) ==
    IF Len(p) = 1 THEN [raised |-> "", value |-> ParseToken(p[1])]
    ELSE IF p # <<>> /\ ephem = "first" THEN [raised |-> "", value |-> ParseToken(p[1])]
    ELSE [raised |-> "ValueError: not an angle", value |-> 0]

\* the constructor without its length test: the values are stored as given
init_params_keep(values, strict) ==
    [raised |-> "", warned |-> FALSE, params |-> values]

\* the part of the constructor after params = np.asarray(params): the
\* length test, the padding with zeros and the truncation with its warning
init_params_pad(values, strict) ==
    IF Len(values) = num_params
    THEN [raised |-> "", warned |-> FALSE, params |-> values]
    ELSE IF strict
    THEN [raised |-> "ValueError: Pointing model expects exactly 22 parameters",
          warned |-> FALSE, params |-> <<>>]
    ELSE IF Len(values) < num_params
    THEN [raised |-> "", warned |-> FALSE,
          params |-> [i \in 1..num_params |-> IF i < Len(values) THEN values[i] ELSE 0]]
    ELSE [raised |-> "",
          warned |-> \E i \in (num_params + 1)..Len(values) : values[i] # 0,
          params |-> SubSeq(values, 1, num_params)]

init_params(values, strict) ==
    IF Len(values) = num_params
    THEN [raised |-> "", warned |-> FALSE, params |-> values]
    ELSE IF strict
    THEN [raised |-> "ValueError: Pointing model expects exactly 22 parameters",
          warned |-> FALSE, params |-> <<>>]
    ELSE IF Len(values) < num_params
    THEN [raised |-> "", warned |-> FALSE,
          params |-> [i \in 1..num_params |-> IF i <= Len(values) THEN values[i] ELSE 0]]
    ELSE [raised |-> "",
          warned |-> \E i \in (num_params + 1)..Len(values) : values[i] # 0,
          params |-> SubSeq(values, 1, num_params)]

\* the constructor for a string: np.array([ephem.degrees(p.strip(', '))
\* for p in params.split()]), then the length test
init_degrees(angles, strict) ==
    IF \E i \in DOMAIN angles : angles[i].raised # ""
    THEN [raised |-> "ValueError: not an angle", warned |-> FALSE, params |-> <<>>]
    ELSE init_params([i \in DOMAIN angles |-> angles[i].value], strict)

init_pieces(pieces, strict, ephem) ==
    init_degrees([i \in DOMAIN pieces |-> ephem_degrees(strip(pieces[i]), ephem)], strict)

init_string(text, strict, ephem) == init_pieces(split(text), strict, ephem)
---------------------------------------------------------------------------
(* Callers constructing pointing models from lists and strings *)

\* the largest number of values beyond num_params a caller supplies
MaxExtra == 2

\* the numbers of values a caller supplies
Lengths == {0, 1, 8, 9, 12, 21} \cup {num_params + k : k \in 0..MaxExtra}

\* n values: those of model k, followed by values beyond num_params that
\* are all zero (tail 0), zero but for the last (tail 1) or non-zero (tail 2)
Values(k, n, tail) ==
    [i \in 1..n |->
        IF i <= num_params THEN ModelParams(k)[i]
        ELSE IF tail = 2 \/ (tail = 1 /\ i = n) THEN ARCSEC * i ELSE 0]

\* the tokens of n values
Tokens(k, n, tail) ==
    [i \in 1..n |->
        IF Values(k, n, tail)[i] = 0 THEN ZeroToken
        ELSE IF i \in {9, 12} THEN FormatG(Values(k, n, tail)[i])
        ELSE DegreesStr(Values(k, n, tail)[i])]

\* a caller constructs a model from a list of numbers
LoadList ==
    \E k \in 1..NumModels, n \in Lengths, tail \in 0..2, strict \in BOOLEAN :
        /\ call = NoCall
        /\ call' = [op |-> "PointingModel(list)", strict |-> strict, n |-> n,
                    values |-> Values(k, n, tail),
                    res |-> init_params(Values(k, n, tail), strict)]
        /\ params' = IF call'.res.raised = "" THEN call'.res.params ELSE params
        /\ prev' = NoCall

\* a caller constructs a model from a string of n values
LoadString ==
    \E k \in 1..NumModels, n \in Lengths, tail \in 0..2, strict \in BOOLEAN,
       style \in {",", ", ", " "}, ephem \in {"raise", "first"} :
        /\ call = NoCall
        /\ call' = [op |-> "PointingModel(string)", strict |-> strict, n |-> n,
                    tokens |-> Tokens(k, n, tail), style |-> style, ephem |-> ephem,
                    res |-> init_string(Join(Tokens(k, n, tail), style), strict, ephem)]
        /\ params' = IF call'.res.raised = "" THEN call'.res.params ELSE params
        /\ prev' = NoCall

\* the caller constructs a second model from the same values, separated
\* in another way
LoadStringAgain ==
    \E style \in {",", ", ", " "} :
        /\ call.op = "PointingModel(string)"
        /\ prev = NoCall
        /\ style # call.style
        /\ call' = [call EXCEPT !.style = style,
                                !.res = init_string(Join(call.tokens, style), call.strict,
                                                    call.ephem)]
        /\ prev' = call
        /\ UNCHANGED params

NextLoad == LoadList \/ LoadString \/ LoadStringAgain

SpecLoad == InitProj /\ [][NextLoad]_vars

\* C11: a model loaded from a list of n values with strict=False has 22
\* parameters, the first min(n, 22) of them the values of the list in
\* order and the others 0; no error is raised; a warning is given exactly
\* when n > 22 and a value beyond the 22nd is not zero
C11_LoadProcrustean ==
    (call.op = "PointingModel(list)" /\ ~call.strict) =>
        /\ call.res.raised = ""
        /\ Len(call.res.params) = num_params
        /\ params = call.res.params
        /\ \A i \in 1..num_params :
               params[i] = IF i <= call.n THEN call.values[i] ELSE 0
        /\ call.res.warned <=>
               (call.n > num_params
                /\ \E i \in (num_params + 1)..call.n : call.values[i] # 0)

\* a list of 21 values with a non-zero last value was padded, and a list
\* too long by non-zero values was cut with a warning
C11_Witness ==
    /\ call.op = "PointingModel(list)"
    /\ ~call.strict
    /\ \/ call.n = num_params - 1 /\ call.values[call.n] # 0 /\ params[num_params] = 0
       \/ call.n > num_params /\ call.res.warned

\* C12: with strict=True the constructor raises ValueError exactly when the
\* number of values supplied (in a list or in a string) is not 22; 22
\* values are stored in order
C12_StrictLength ==
    (call.op \in {"PointingModel(list)", "PointingModel(string)"} /\ call.strict) =>
        /\ (call.res.raised # "") <=> (call.n # num_params)
        /\ call.n = num_params =>
               call.res.params = (IF call.op = "PointingModel(list)" THEN call.values
                                  ELSE [i \in 1..call.n |-> ParseToken(call.tokens[i])])

\* C14: strings of the same values separated by commas, by comma and
\* space, and by whitespace give the same parameters
C14_Separators ==
    (call.op = "PointingModel(string)" /\ prev # NoCall) => call.res = prev.res
---------------------------------------------------------------------------
(* Comparison of PointingModel objects.  The class derives from object and *)
(* defines neither __eq__ nor __ne__ nor __cmp__: == and != compare the    *)
(* identities of the two objects.  An object is its identity and its       *)
(* parameters.                                                             *)

Object(id, P) == [id |-> id, params |-> P]

\* a == b and a != b of two objects of a class without comparison methods
object_eq(a, b) == a.id = b.id

object_ne(a, b) == a.id # b.id

\* pm2 = PointingModel(params[:-2], strict=False) of the parameters of pm
Truncated(P) == init_params(SubSeq(P, 1, num_params - 2), FALSE).params

\* the caller compares the model with the model loaded from its
\* description, with the model of its first 20 parameters, and with itself
\* (test_pointing_model_load_save)
Compare ==
    \E other \in {"loaded", "truncated", "itself"} :
        /\ call.op = "PointingModel(description)"
        /\ call.res.raised = ""
        /\ call' = [op |-> "pm == other", other |-> other,
                    pm |-> Object(1, params),
                    pm2 |-> CASE other = "loaded" -> Object(2, call.res.params)
                              [] other = "truncated" -> Object(3, Truncated(params))
                              [] other = "itself" -> Object(1, params)]
        /\ prev' = call
        /\ UNCHANGED params

\* the results of == and != for the two objects of the call
Compared(c) == [eq |-> object_eq(c.pm, c.pm2), ne |-> object_ne(c.pm, c.pm2)]

NextEq == Construct \/ Load \/ Compare

SpecEq == InitProj /\ [][NextEq]_vars

\* C13: two PointingModel objects with the same description compare equal
\* (==, and not !=), as a model and the model loaded from its description
\* do; two objects whose parameters differ in their descriptions compare
\* unequal
C13_EqualByDescription ==
    call.op = "pm == other" =>
        IF description(call.pm.params) = description(call.pm2.params)
        THEN Compared(call) = [eq |-> TRUE, ne |-> FALSE]
        ELSE Compared(call) = [eq |-> FALSE, ne |-> TRUE]

---------------------------------------------------------------------------
(* PointingModel.fit as a call on an instance: the shapes of its inputs,   *)
(* the forms of enabled_params, its warnings and its standard errors       *)

\* enabled_params = None
DefaultEnabled == [form |-> "None"]

\* enabled_params as a list of P-numbers and as a list of boolean flags
Indices(list) == [form |-> "ints", list |-> list]

Flags(S) == [form |-> "bools", list |-> [i \in 1..num_params |-> i \in S]]

\* enabled_params.nonzero()[0] + 1, as set(enabled_params)
enabled_set(enabled_params) ==
    IF enabled_params.form = "None" THEN {1, 3, 4, 5, 6, 7}
    ELSE IF enabled_params.form = "bools"
    THEN {i \in DOMAIN enabled_params.list : enabled_params.list[i]}
    ELSE {enabled_params.list[i] : i \in DOMAIN enabled_params.list}

\* list(enabled_params) of a set of small integers
RECURSIVE SortedSeq(_)
SortedSeq(S) ==
    IF S = {} THEN <<>>
    ELSE <<CHOOSE i \in S : \A j \in S : i <= j>>
             \o SortedSeq(S \ {CHOOSE i \in S : \A j \in S : i <= j})

\* logger.warning('Pointing model parameter P2 is meaningless ...') and
\* logger.warning('Pointing model parameter P10 is redundant ...')
fit_warnings(S) == S \cap {2, 10}

\* np.shape of the inputs; sigma_daz and sigma_del default to np.ones of the
\* shapes of az and el
same_shape(az, el, delta_az, delta_el, n_daz, n_del) ==
    /\ Len(az) = Len(el)
    /\ Len(el) = Len(delta_az)
    /\ Len(delta_az) = Len(delta_el)
    /\ Len(delta_el) = (IF n_daz = -1 THEN Len(az) ELSE n_daz)
    /\ (IF n_daz = -1 THEN Len(az) ELSE n_daz) = (IF n_del = -1 THEN Len(el) ELSE n_del)

\* the inverse of the normal equations is solved for unit columns of this
\* size
UnitH == HS \div 512

UnitRows(M) == [i \in 1..M |-> [k \in 1..M |-> IF k = i THEN UnitH ELSE 0]]

\* np.sqrt(np.sum((Vt.T / s) ** 2, axis=1)): the square roots of the
\* diagonal of the inverse of A.T A (TS is the standard error of an offset)
sigma_of(g, m, N) ==
    IF g.state # "ok" THEN HUGE
    ELSE 4 * Sqrt((8 * Max(g.x[m][m], 0)) \div (25 * N))

fit_sigma(A) ==
    np_asarray([m \in DOMAIN A |->
        sigma_of(gauss(NormalRows(A, UnitRows(Len(A)))), m, Len(A[1]))])

\* sigma_params[enabled_params - 1] = ...
sigma_assign(enabled, sigma) ==
    [i \in 1..num_params |->
        IF \E m \in DOMAIN enabled : enabled[m] = i
        THEN sigma[CHOOSE m \in DOMAIN enabled : enabled[m] = i]
        ELSE 0]

\* self.params[:] = 0.0 kept as it was
fit_blank_keep(self_params) == self_params

\* self.params[:] = 0.0
fit_blank(self_params) == Zeros

FitResult(raised, warnings, p, sigma_params) ==
    [raised |-> raised, warnings |-> warnings, params |-> p,
     sigma_params |-> sigma_params]

fit_solve(az, el, delta, enabled, warnings, kind) ==
    FitResult("", warnings, np_asarray(fit_enabled(az, el, delta, enabled, kind).params),
              np_asarray(sigma_assign(enabled, fit_sigma(Columns(enabled, az, el)))))

\* pm.fit(az, el, delta_az, delta_el, sigma_daz, sigma_del, enabled_params)
\* on a model holding self_params; n_daz and n_del are the lengths of
\* sigma_daz and sigma_del (arrays of ones), -1 for None
fit(self_params, az, el, delta_az, delta_el, n_daz, n_del, enabled_params, kind) ==
    IF ~same_shape(az, el, delta_az, delta_el, n_daz, n_del)
    THEN FitResult("AssertionError: Input parameters should all have the same shape",
                   {}, self_params, <<>>)
    ELSE IF Enabled(SortedSeq(enabled_set(enabled_params))) = <<>>
    THEN FitResult("", fit_warnings(enabled_set(enabled_params)),
                   fit_blank(self_params), Zeros)
    ELSE fit_solve(az, el,
                   [n \in DOMAIN az |-> [delta_az |-> delta_az[n], delta_el |-> delta_el[n]]],
                   Enabled(SortedSeq(enabled_set(enabled_params))),
                   fit_warnings(enabled_set(enabled_params)), kind)

---------------------------------------------------------------------------
(* Callers of pm.fit on a model that holds parameters already *)

\* the enabled_params of the callers: omitted, P-numbers (in any order,
\* repeated) and boolean flags
FitEnabled ==
    {DefaultEnabled, Indices(<<>>), Indices(<<2>>), Indices(<<10, 2>>), Indices(<<7, 2>>),
     Indices(<<4, 10>>), Indices(<<3, 1, 3>>), Indices(<<8, 11, 5, 6>>),
     Flags({}), Flags({2, 10}), Flags({1, 2, 7}), Flags({1, 3, 4, 5, 6, 7, 8})}

\* the enabled_params of a second fit of the same instance
RefitEnabled == {Indices(<<>>), Flags({2, 10}), Indices(<<10, 7>>), Flags({3})}

\* the offsets a source model makes at the directions
DeltaAz(source, az, el) ==
    np_asarray([n \in DOMAIN az |-> PointingModel_offset(source, az, el)[n].delta_az])

DeltaEl(source, az, el) ==
    np_asarray([n \in DOMAIN az |-> PointingModel_offset(source, az, el)[n].delta_el])

\* an input one element shorter than the others
Shorter(a) == SubSeq(a, 1, Len(a) - 1)

Cut(a, name, short) == IF name = short THEN Shorter(a) ELSE a

CutLen(n, name, short) == IF name = short THEN n - 1 ELSE n

ShapeNames == {"az", "el", "delta_az", "delta_el", "sigma_daz", "sigma_del"}

FitRecord(self_params, az, el, delta_az, delta_el, n_daz, n_del, enabled_params, kind) ==
    [op |-> "pm.fit", self |-> self_params, enabled_params |-> enabled_params,
     shapes |-> <<Len(az), Len(el), Len(delta_az), Len(delta_el),
                  IF n_daz = -1 THEN Len(az) ELSE n_daz,
                  IF n_del = -1 THEN Len(el) ELSE n_del>>,
     res |-> fit(self_params, az, el, delta_az, delta_el, n_daz, n_del,
                 enabled_params, kind)]

\* a caller fits its model k to the offsets of the next model
FitModel ==
    \E enabled_params \in FitEnabled, k \in 1..NumModels, n \in 1..FitPoints,
       kind \in {"nan", "inf"} :
        /\ call = NoCall
        /\ params = ModelParams(k)
        /\ call' = FitRecord(params, SampleAz(n), SampleEl(n),
                             DeltaAz(ModelParams((k % NumModels) + 1), SampleAz(n), SampleEl(n)),
                             DeltaEl(ModelParams((k % NumModels) + 1), SampleAz(n), SampleEl(n)),
                             -1, -1, enabled_params, kind)
        /\ params' = call'.res.params
        /\ prev' = NoCall

\* a caller fits the same instance once more, at the same directions
Refit ==
    \E enabled_params \in RefitEnabled, n \in 1..FitPoints :
        /\ call.op = "pm.fit"
        /\ prev = NoCall
        /\ n = call.shapes[1]
        /\ call' = FitRecord(params, SampleAz(n), SampleEl(n),
                             DeltaAz(call.self, SampleAz(n), SampleEl(n)),
                             DeltaEl(call.self, SampleAz(n), SampleEl(n)),
                             n, n, enabled_params, "nan")
        /\ params' = call'.res.params
        /\ prev' = call

\* a caller passes inputs of which one is shorter than the others
FitMismatch ==
    \E short \in ShapeNames, enabled_params \in {DefaultEnabled, Indices(<<>>)},
       n \in 1..FitPoints, sigmas \in BOOLEAN :
        /\ call = NoCall \/ (/\ call.op = "pm.fit"
                             /\ prev = NoCall
                             /\ call.res.raised = ""
                             /\ call.enabled_params = DefaultEnabled)
        /\ sigmas \/ short \notin {"sigma_daz", "sigma_del"}
        /\ call' = FitRecord(params, Cut(SampleAz(n), "az", short),
                             Cut(SampleEl(n), "el", short),
                             Cut(DeltaAz(Zeros, SampleAz(n), SampleEl(n)), "delta_az", short),
                             Cut(DeltaEl(Zeros, SampleAz(n), SampleEl(n)), "delta_el", short),
                             IF sigmas THEN CutLen(n, "sigma_daz", short) ELSE -1,
                             IF sigmas THEN CutLen(n, "sigma_del", short) ELSE -1,
                             enabled_params, "nan")
        /\ params' = call'.res.params
        /\ prev' = call

NextFitCall == FitModel \/ Refit \/ FitMismatch

SpecFitCall == InitPM /\ [][NextFitCall]_vars

\* the P-numbers a call asked to fit: the parameter list, the true positions
\* of the flags, or the six default parameters
Requested(c) ==
    IF c.enabled_params.form = "None" THEN {1, 3, 4, 5, 6, 7}
    ELSE IF c.enabled_params.form = "ints"
    THEN {i \in 1..num_params : \E m \in DOMAIN c.enabled_params.list :
                                   c.enabled_params.list[m] = i}
    ELSE {i \in 1..num_params : c.enabled_params.list[i]}

\* the inputs of a fit call had one shape
SameShapes(c) == \A i \in DOMAIN c.shapes : c.shapes[i] = c.shapes[1]

\* the fit call returned its two vectors
Returned(c) == c.op = "pm.fit" /\ c.res.raised = ""

\* C15: fit never fits P2 or P10: asking for them (by index or by flag)
\* raises no error and logs one warning for each, and after every fit that
\* returns P2 and P10 of the model and their standard errors are 0
C15_NeverFitsP2P10 ==
    call.op = "pm.fit" =>
        /\ SameShapes(call) => call.res.raised = ""
        /\ Returned(call) =>
               /\ call.res.warnings = Requested(call) \cap {2, 10}
               /\ params = call.res.params
               /\ \A i \in {2, 10} : params[i] = 0 /\ call.res.sigma_params[i] = 0

\* a fit asked for P2 and for a parameter it can fit, on a model whose P2
\* was not 0: it warned, fitted the other parameter and zeroed P2
C15_Witness ==
    /\ Returned(call)
    /\ 2 \in Requested(call)
    /\ 2 \in call.res.warnings
    /\ call.self[2] # 0
    /\ params[2] = 0
    /\ \E i \in Requested(call) \ {2, 10} : params[i] # 0 /\ params[i] # HUGE

\* C16: after a fit that returns, every parameter that is not in the
\* requested set minus {2, 10} is 0 and has standard error 0, whatever the
\* model held before; with nothing left to fit the model is all zeros
C16_DisabledZeroed ==
    Returned(call) =>
        /\ \A i \in 1..num_params :
               i \notin (Requested(call) \ {2, 10}) =>
                   (params[i] = 0 /\ call.res.sigma_params[i] = 0)
        /\ Requested(call) \ {2, 10} = {} => (params = Zeros /\ call.res.params = Zeros)

\* a fit of the default parameters from three directions or more, of a
\* model that held a non-zero P8: the six parameters were fitted, P8 is 0
C16_Witness ==
    /\ Returned(call)
    /\ call.enabled_params = DefaultEnabled
    /\ call.shapes[1] >= 3
    /\ call.self[8] # 0
    /\ params[8] = 0
    /\ \A i \in {1, 3, 4, 5, 6, 7} :
           params[i] # 0 /\ Abs(params[i]) < HS /\ call.res.sigma_params[i] > 0

\* C17 as stated: a fit whose inputs differ in shape raises ValueError and
\* leaves the parameters of the model as they were
C17_ShapeValueError ==
    (call.op = "pm.fit" /\ ~SameShapes(call)) =>
        /\ call.res.raised = "ValueError"
        /\ params = call.self

---------------------------------------------------------------------------
(* The loop of PointingModel.reverse, pass by pass *)

\* pointed elevations at the zenith, where the secant is clamped, and away
\* from it
NewtonEl == {45 * DEG, 89 * DEG + 1800 * ARCSEC, DEG90}

NewtonAz == {-60 * DEG, -30 * DEG, 100 * DEG}

\* a caller asks for the requested directions of pointed directions: the
\* call is at pass 1 of its loop; res is what the call returns
ReverseStart ==
    \E az \in NewtonAz, el \in NewtonEl, n \in 1..2 :
        /\ call = NoCall
        /\ call' = [op |-> "PointingModel.reverse loop", pass |-> 1,
                    passes |-> reverse_passes(params,
                                   reverse_start(params, GridArray(az, n), GridArray(el, n)),
                                   NewtonSteps + 2),
                    res |-> PointingModel_reverse(params, GridArray(az, n), GridArray(el, n))]
        /\ prev' = NoCall
        /\ UNCHANGED params

\* the loop makes its next pass, or returns after the last one
ReversePass ==
    /\ call.op = "PointingModel.reverse loop"
    /\ call.passes[call.pass].status = "running"
    /\ call.pass < Len(call.passes)
    /\ call' = [call EXCEPT !.pass = @ + 1]
    /\ prev' = call
    /\ UNCHANGED params

NextNewton == ReverseStart \/ ReversePass

\* the loop is a for loop of one thread: a pass that can be made is made
SpecNewton == InitPM /\ [][NextNewton]_vars /\ WF_vars(ReversePass)

InLoop == call.op = "PointingModel.reverse loop"

\* the state of the loop of the call
Loop == call.passes[call.pass]

\* what holds of the loop in every state
NewtonBounded ==
    InLoop =>
        /\ Loop.iteration <= NewtonSteps
        /\ Loop.status \in {"running", "returned"}
        /\ Loop.status = "running" =>
               (~Loop.warned /\ (Loop.iteration > 0 => ~np_all(Loop.within)))
        /\ Loop.status = "returned" =>
               /\ Loop.warned <=> Loop.iteration = NewtonSteps
               /\ ~Loop.warned => (np_all(Loop.within) /\ Loop.within # <<>>)
               /\ call.res = [az |-> Loop.az, el |-> Loop.el,
                              iterations |-> Loop.iteration, warned |-> Loop.warned]

\* C18: PointingModel.reverse returns after at most 30 Newton steps and
\* never raises: it stops at the first iterate whose sky error is below
\* 0.01 arcsec for every element, or it takes 30 steps, logs a warning and
\* returns the (az, el) it has
C18_ReverseTerminates ==
    /\ []NewtonBounded
    /\ (InLoop /\ Loop.status = "running") ~> (InLoop /\ Loop.status = "returned")

\* a call that took all 30 steps, warned and returned its estimate
C18_Witness ==
    /\ InLoop
    /\ Loop.status = "returned"
    /\ Loop.warned
    /\ Loop.iteration = NewtonSteps
    /\ Len(Loop.az) = 2
    /\ \E i \in DOMAIN Loop.within : ~Loop.within[i]

---------------------------------------------------------------------------
(* The loop of RefractionCorrection.reverse, pass by pass *)

\* a pressure gauge that reads nothing
NoPressure == [temperature |-> 15, pressure |-> 0, humidity |-> 50]

\* refracted elevations at and near the horizon and above
BisectEls == {0, DEG, 2 * DEG, 5 * DEG, DEG45}

\* a caller asks for the elevation of one refracted elevation or of an
\* array of two: the call is at pass 1 of its loop; res is what the call
\* returns
BisectStart ==
    \E el \in BisectEls, w \in WeatherSet \cup {NoPressure}, n \in 1..2 :
        /\ call = NoCall
        /\ call' = [op |-> "RefractionCorrection.reverse loop", pass |-> 1,
                    close_offset |->
                        np_asarray(refraction_offset_vlbi(
                            IF n = 1 THEN <<el>> ELSE <<el, DEG90 - el>>, <<w>>)),
                    passes |->
                        bisect_passes(
                            bisect_start(IF n = 1 THEN <<el>> ELSE <<el, DEG90 - el>>,
                                <<w>>, n = 2,
                                refraction_offset_vlbi(
                                    IF n = 1 THEN <<el>> ELSE <<el, DEG90 - el>>, <<w>>)),
                            BisectionSteps + 2),
                    res |-> RefractionCorrection_reverse(
                                IF n = 1 THEN <<el>> ELSE <<el, DEG90 - el>>, <<w>>, n = 2)]
        /\ prev' = NoCall
        /\ UNCHANGED params

\* the loop makes its next pass, or returns after the last one
BisectPass ==
    /\ call.op = "RefractionCorrection.reverse loop"
    /\ call.passes[call.pass].status = "running"
    /\ call.pass < Len(call.passes)
    /\ call' = [call EXCEPT !.pass = @ + 1]
    /\ prev' = call
    /\ UNCHANGED params

NextBisect == BisectStart \/ BisectPass

\* the loop is a for loop of one thread: a pass that can be made is made
SpecBisect == InitProj /\ [][NextBisect]_vars /\ WF_vars(BisectPass)

InBisect == call.op = "RefractionCorrection.reverse loop"

\* the state of the loop of the call, and its state one pass earlier
Bracket == call.passes[call.pass]

Before == call.passes[IF call.pass > 1 THEN call.pass - 1 ELSE 1]

\* what holds of the bracket in every state
BracketKept ==
    InBisect =>
        /\ Bracket.iteration <= BisectionSteps
        /\ \A i \in DOMAIN Bracket.lower :
               /\ Bracket.lower[i] <= Bracket.upper[i]
               /\ Bracket.el # <<>> =>
                      (Bracket.lower[i] <= Bracket.el[i] /\ Bracket.el[i] <= Bracket.upper[i])
               /\ Bracket.lower[i] >= Before.lower[i]
               /\ Bracket.upper[i] <= Before.upper[i]
               /\ call.passes[1].lower[i] =
                      Bracket.refracted_el[i] - 4 * Abs(call.close_offset[i])
               /\ call.passes[1].upper[i] = Bracket.refracted_el[i] + ARCSEC
        /\ Bracket.status = "returned" =>
               /\ Bracket.warned <=> Bracket.iteration = BisectionSteps
               /\ Bracket.warned => Bracket.el = Before.el
               /\ call.res = [el |-> Bracket.el, iterations |-> Bracket.iteration,
                              warned |-> Bracket.warned]

\* C19: RefractionCorrection.reverse is a bisection that keeps
\* lower <= el <= upper for every element in every pass, never widens the
\* bracket it starts with, [refracted_el - 4 |offset(refracted_el)|,
\* refracted_el + 1 arcsec], and returns within 40 passes; at the cap it
\* logs a warning and returns the last midpoint
C19_BisectionBracket ==
    /\ []BracketKept
    /\ (InBisect /\ Bracket.status = "running") ~> (InBisect /\ Bracket.status = "returned")

\* a call on an array of two that made all 40 passes, warned and returned
\* the last midpoint, its bracket narrower than at the start
C19_Witness ==
    /\ InBisect
    /\ Bracket.status = "returned"
    /\ Bracket.warned
    /\ Bracket.iteration = BisectionSteps
    /\ Len(Bracket.el) = 2
    /\ \A i \in DOMAIN Bracket.el :
           Bracket.upper[i] - Bracket.lower[i]
               < call.passes[1].upper[i] - call.passes[1].lower[i]

---------------------------------------------------------------------------
(* RefractionCorrection(model): the choice of the refraction model *)

\* self.models = {'VLBI Field System' : refraction_offset_vlbi}
models == [name \in {"VLBI Field System"} |-> "refraction_offset_vlbi"]

\* a constructor that takes the VLBI model for a name it does not know
RefractionCorrection_init_any(model) ==
    [raised |-> "", model |-> "VLBI Field System", offset |-> "refraction_offset_vlbi"]

\* RefractionCorrection.__init__(model): the object, or the error raised
\* ("Unknown refraction correction model '%s' - should be one of %s")
RefractionCorrection_init(model) ==
    IF model \in DOMAIN models
    THEN [raised |-> "", model |-> model, offset |-> models[model]]
    ELSE [raised |-> "ValueError", model |-> "", offset |-> ""]

\* def __init__(self, model='VLBI Field System')
RefractionCorrection_default == RefractionCorrection_init("VLBI Field System")

\* self.offset(el, temperature_C, pressure_hPa, humidity_percent)
self_offset(rc, el, w) ==
    IF rc.offset = "refraction_offset_vlbi" THEN np_asarray(refraction_offset_vlbi(el, w))
    ELSE <<>>

\* the model names of the callers
ModelNames == {"VLBI Field System", "unknown", "vlbi field system", "VLBI", ""}

\* a caller constructs a refraction correction with a model name or
\* without one (test_refraction_basic)
RCConstruct ==
    \E named \in BOOLEAN, model \in ModelNames :
        /\ call = NoCall
        /\ named \/ model = "VLBI Field System"
        /\ call' = [op |-> "RefractionCorrection(model)", named |-> named, model |-> model,
                    res |-> IF named THEN RefractionCorrection_init(model)
                            ELSE RefractionCorrection_default]
        /\ prev' = NoCall
        /\ UNCHANGED params

\* a caller asks the object it constructed for an offset
RCOffset ==
    \E el \in RefrEls, w \in WeatherSet, n \in 1..2 :
        /\ call.op = "RefractionCorrection(model)"
        /\ call.res.raised = ""
        /\ call' = [op |-> "rc.offset", el |-> GridArray(el, n), w |-> <<w>>,
                    res |-> self_offset(call.res, GridArray(el, n), <<w>>),
                    vlbi |-> np_asarray(refraction_offset_vlbi(GridArray(el, n), <<w>>))]
        /\ prev' = call
        /\ UNCHANGED params

NextRCInit == RCConstruct \/ RCOffset

SpecRCInit == InitProj /\ [][NextRCInit]_vars

\* C20: RefractionCorrection with a model name that is not a known model
\* raises ValueError and leaves no object; with 'VLBI Field System', given
\* or by default, it succeeds and the offset of the object is the VLBI
\* Field System model
C20_UnknownModel ==
    /\ call.op = "RefractionCorrection(model)" =>
           IF call.named /\ call.model # "VLBI Field System"
           THEN /\ call.res.raised = "ValueError"
                /\ call.res.model = ""
                /\ call.res.offset = ""
           ELSE /\ call.res.raised = ""
                /\ call.res.model = "VLBI Field System"
    /\ call.op = "rc.offset" =>
           /\ prev.res.raised = ""
           /\ ~prev.named \/ prev.model = "VLBI Field System"
           /\ call.res = call.vlbi

\* a name that differs from the known one only in its case was refused
C20_Witness ==
    /\ call.op = "RefractionCorrection(model)"
    /\ call.named
    /\ call.model = "vlbi field system"
    /\ call.res.raised = "ValueError"
    /\ call.res.offset = ""
---------------------------------------------------------------------------
(* Model instances and the arrays they hold.  A heap is a sequence of     *)
(* buffers; an object refers to a buffer and sees its first n elements.   *)

\* an ndarray on buffer buf
ndarray(buf, n) == [type |-> "ndarray", buf |-> buf, n |-> n]

\* the elements an object sees
values(heap, obj) == SubSeq(heap[obj.buf], 1, obj.n)

\* np.asarray(params): an ndarray is returned as it is, a list is copied
\* into the buffer of a new array
asarray(heap, obj) ==
    IF obj.type = "ndarray" THEN [heap |-> heap, obj |-> obj]
    ELSE [heap |-> Append(heap, values(heap, obj)), obj |-> ndarray(Len(heap) + 1, obj.n)]

\* the rest of the constructor: self.params is params itself when it has
\* num_params elements, padded (a new array) when it has fewer, and
\* params[:self.num_params] (a view of the same buffer) when it has more
init_self(a, strict, r) ==
    IF r.raised # "" THEN [raised |-> r.raised, heap |-> a.heap, self_params |-> <<>>]
    ELSE IF a.obj.n < num_params
    THEN [raised |-> "", heap |-> Append(a.heap, r.params),
          self_params |-> <<ndarray(Len(a.heap) + 1, num_params)>>]
    ELSE [raised |-> "", heap |-> a.heap,
          self_params |-> <<ndarray(a.obj.buf, num_params)>>]

init_asarray(a, strict) == init_self(a, strict, init_params(values(a.heap, a.obj), strict))

\* PointingModel(params, strict) for a list or an ndarray params
init_object(heap, obj, strict) == init_asarray(asarray(heap, obj), strict)

\* self.params[:] = 0.0 and self.params[enabled_params - 1] = ...: the
\* elements are written into the buffer of self.params
assign(heap, obj, new) ==
    [heap EXCEPT ![obj.buf] = new \o SubSeq(@, obj.n + 1, Len(@))]

\* the directions and the enabled_params of the fits
ShareEnabled == {Indices(<<>>), Indices(<<1, 7>>)}

\* what the caller holds: its array arg, the instances pms it made of it
\* (each by its self.params), and the last call it made on instance on
ShareCall(op, heap, arg, pms, on, res) ==
    [op |-> op, heap |-> heap, arg |-> arg, pms |-> pms, on |-> on, res |-> res]

\* a caller makes the parameters of model k, as a list or as an array
MakeParams ==
    \E k \in 1..NumModels, type \in {"list", "ndarray"},
       n \in {num_params - 1} \cup {num_params + e : e \in 0..MaxExtra} :
        /\ call = NoCall
        /\ call' = ShareCall("params", <<np_asarray(Values(k, n, 2))>>,
                             [type |-> type, buf |-> 1, n |-> n], <<>>, 0, <<>>)
        /\ prev' = NoCall
        /\ UNCHANGED params

\* the caller calls the constructor on its parameters, twice in all (on
\* counts the calls)
ConstructOne ==
    \E strict \in BOOLEAN :
        /\ call.op \in {"params", "PointingModel"}
        /\ call.on < 2
        /\ call' = ShareCall("PointingModel",
                             init_object(call.heap, call.arg, strict).heap, call.arg,
                             call.pms \o init_object(call.heap, call.arg, strict).self_params,
                             call.on + 1,
                             init_object(call.heap, call.arg, strict).raised)
        /\ prev' = NoCall
        /\ params' = IF call'.pms = <<>> THEN params
                     ELSE values(call'.heap, call'.pms[1])

\* the caller made no call, or one call, on the instances it constructed
MayCall == call.op = "PointingModel" \/ (call.op \in {"pm.fit", "pm.offset"}
                                         /\ prev.op = "PointingModel")

\* the caller reads the offsets of one of its instances
OffsetOne ==
    \E i \in 1..2 :
        /\ MayCall
        /\ i <= Len(call.pms)
        /\ call' = ShareCall("pm.offset", call.heap, call.arg, call.pms, i,
                             PointingModel_offset(values(call.heap, call.pms[i]),
                                                  SampleAz(2), SampleEl(2)))
        /\ prev' = call
        /\ UNCHANGED params

\* the caller fits one of its instances
FitOne ==
    \E i \in 1..2, enabled_params \in ShareEnabled :
        /\ MayCall
        /\ i <= Len(call.pms)
        /\ call' = ShareCall("pm.fit",
                             assign(call.heap, call.pms[i],
                                    fit(values(call.heap, call.pms[i]),
                                        SampleAz(2), SampleEl(2),
                                        DeltaAz(ModelParams(1), SampleAz(2), SampleEl(2)),
                                        DeltaEl(ModelParams(1), SampleAz(2), SampleEl(2)),
                                        -1, -1, enabled_params, "nan").params),
                             call.arg, call.pms, i, enabled_params)
        /\ prev' = call
        /\ params' = values(call'.heap, call'.pms[1])

NextShare == MakeParams \/ ConstructOne \/ OffsetOne \/ FitOne

SpecShare == InitProj /\ [][NextShare]_vars

\* the call made last was made on an instance, and the caller holds another
OnOneOfTwo == call.op \in {"pm.fit", "pm.offset"} /\ Len(call.pms) = 2

\* C21: distinct instances share no state: an operation on one instance,
\* fit included, leaves the parameter vector of every other instance and
\* the array the caller passed to the constructors unchanged, even when the
\* instances were constructed from the same array
C21_NoSharedState ==
    call.op \in {"pm.fit", "pm.offset"} =>
        /\ \A j \in DOMAIN call.pms :
               j # call.on => values(call.heap, call.pms[j]) = values(prev.heap, prev.pms[j])
        /\ call.heap[call.arg.buf] = prev.heap[prev.arg.buf]

\* two instances made of one list share nothing: a fit of one leaves the
\* other and the list as they were
ListsApart ==
    (OnOneOfTwo /\ call.arg.type = "list") =>
        /\ call.pms[1].buf # call.pms[2].buf
        /\ values(call.heap, call.pms[3 - call.on]) = values(prev.heap, prev.pms[3 - call.on])
        /\ call.heap[1] = prev.heap[1]

---------------------------------------------------------------------------
(* The package-level projection wrappers of katpoint/__init__.py and the   *)
(* Target methods of the same names.  A Python value is a record with its  *)
(* type; a call returns the exception it raised ("" for none), the         *)
(* reference direction it handed to the engine and the engine's result.    *)

None == [type |-> "NoneType"]
AnAntenna == [type |-> "Antenna"]
AFloat == [type |-> "float"]
AList == [type |-> "list"]

\* the names an Antenna instance answers to
AntennaNames ==
    {"name", "diameter", "pointing_model", "beamwidth", "ref_observer",
     "position_enu", "position_ecef", "observer", "description",
     "format_katcp", "baseline_toward", "local_sidereal_time"}

\* attribute lookup obj.name: the exception raised, "" for none
getattr(obj, name) ==
    IF obj.type = "Antenna" /\ name \in AntennaNames THEN "" ELSE "AttributeError"

is_iterable(x) == x.type = "list"

\* Timestamp(timestamp): only None and numbers pass float()
Timestamp_init(timestamp) ==
    IF timestamp.type \in {"NoneType", "float"} THEN "" ELSE "TypeError"

set_timestamp_antenna_defaults(self, timestamp, antenna) ==
    LET a == IF antenna = None THEN self.antenna ELSE antenna
    IN  [raised |-> IF a = None THEN "ValueError" ELSE "",
         timestamp |-> IF timestamp = None THEN AFloat ELSE timestamp,
         antenna |-> a]

\* _scalar_radec / _scalar_azel: the right-hand side Timestamp(t) is
\* evaluated before the target antenna.observer.date is looked up
scalar_compute(t, antenna) ==
    IF Timestamp_init(t) # "" THEN Timestamp_init(t) ELSE getattr(antenna, "observer")

\* Target.radec(timestamp, antenna) and Target.azel(timestamp, antenna):
\* the exception raised and the coordinates returned
target_compute(self, timestamp, antenna, coords) ==
    LET d == set_timestamp_antenna_defaults(self, timestamp, antenna)
        r == IF d.raised # "" THEN d.raised
             ELSE scalar_compute(IF is_iterable(d.timestamp) THEN AFloat ELSE d.timestamp,
                                 d.antenna)
    IN  [raised |-> r, ref |-> IF r = "" THEN coords ELSE <<>>]

astrometric_radec(self, timestamp, antenna) ==
    target_compute(self, timestamp, antenna, self.radec)

azel(self, timestamp, antenna) ==
    target_compute(self, timestamp, antenna, self.azel)

\* what a wrapper returns once its reference lookup raised, or it found the
\* reference ref and ran the engine
Outcome(raised, ref, res) == [raised |-> raised, ref |-> ref, res |-> res]

Engine(op, projection_type, ref, a, b) ==
    LET res == IF op = "sphere_to_plane"
               THEN sphere_to_plane(projection_type, ref[1], ref[2], a, b)
               ELSE plane_to_sphere(projection_type, ref[1], ref[2], a, b)
    IN  Outcome(res.raised, ref, res)

Target_sphere_to_plane(self, az, el, timestamp, antenna, projection_type, coord_system) ==
    LET r == IF coord_system = "radec" THEN astrometric_radec(self, timestamp, antenna)
             ELSE azel(self, timestamp, antenna)
    IN  IF r.raised # "" THEN Outcome(r.raised, <<>>, <<>>)
        ELSE Engine("sphere_to_plane", projection_type, r.ref, az, el)

Target_plane_to_sphere(self, x, y, timestamp, antenna, projection_type, coord_system) ==
    LET r == IF coord_system = "radec" THEN astrometric_radec(self, timestamp, antenna)
             ELSE azel(self, timestamp, antenna)
    IN  IF r.raised # "" THEN Outcome(r.raised, <<>>, <<>>)
        ELSE Engine("plane_to_sphere", projection_type, r.ref, x, y)

\* antenna.point(target, timestamps)
antenna_point(antenna, target, timestamps) ==
    [raised |-> getattr(antenna, "point"), ref |-> <<>>]

\* the local names a wrapper has bound after its reference lookup
Bound(coord_system, r) ==
    IF r.raised # "" THEN {}
    ELSE IF coord_system = "radec" THEN {"ref_ra", "ref_dec"} ELSE {"ref_az", "ref_el"}

\* the engine call of a wrapper that reads the local names used
wrapper_return(op, projection_type, coord_system, r, used, a, b) ==
    IF r.raised # "" THEN Outcome(r.raised, <<>>, <<>>)
    ELSE IF ~(used \subseteq Bound(coord_system, r))
         THEN Outcome("UnboundLocalError", <<>>, <<>>)
         ELSE Engine(op, projection_type, r.ref, a, b)

katpoint_sphere_to_plane(antenna, target, az, el, timestamps, projection_type, coord_system) ==
    IF coord_system = "radec"
    THEN wrapper_return("sphere_to_plane", projection_type, coord_system,
                        astrometric_radec(target, antenna, timestamps),
                        {"ref_ra", "ref_dec"}, az, el)
    ELSE wrapper_return("sphere_to_plane", projection_type, coord_system,
                        antenna_point(antenna, target, timestamps),
                        {"ref_az", "ref_el"}, az, el)

katpoint_plane_to_sphere(antenna, target, x, y, timestamps, projection_type, coord_system) ==
    IF coord_system = "radec"
    THEN wrapper_return("plane_to_sphere", projection_type, coord_system,
                        astrometric_radec(target, antenna, timestamps),
                        {"ref_az", "ref_el"}, x, y)
    ELSE wrapper_return("plane_to_sphere", projection_type, coord_system,
                        antenna_point(antenna, target, timestamps),
                        {"ref_az", "ref_el"}, x, y)

---------------------------------------------------------------------------
(* Callers of the wrappers and of the Target methods *)

CoordSystems == {"radec", "azel"}

\* targets whose (ra, dec) and (az, el) differ, with and without an antenna
\* of their own
PackageTargets ==
    {[type |-> "Target", radec |-> <<45 * DEG, 30 * DEG>>,
      azel |-> <<-45 * DEG, 60 * DEG>>, antenna |-> a] : a \in {None, AnAntenna}}

PackageTimestamps == {AFloat, AList}

\* the reference direction of the tag
Reference(target, coord_system) ==
    IF coord_system = "radec" THEN target.radec ELSE target.azel

PackageCall(op, F, cs, target, timestamps, a, b, res) ==
    [op |-> op, F |-> F, coord_system |-> cs, target |-> target,
     timestamps |-> timestamps, a |-> a, b |-> b, res |-> res]

PackageSphereToPlane ==
    \E F \in Families, cs \in CoordSystems, target \in PackageTargets,
       ts \in PackageTimestamps, az \in Lons, el \in Lats :
        /\ call = NoCall
        /\ call' = PackageCall("katpoint.sphere_to_plane", F, cs, target, ts, <<az>>, <<el>>,
                       katpoint_sphere_to_plane(AnAntenna, target, <<az>>, <<el>>, ts, F, cs))
        /\ prev' = NoCall
        /\ UNCHANGED params

PackagePlaneToSphere ==
    \E F \in Families, cs \in CoordSystems, target \in PackageTargets,
       ts \in PackageTimestamps, x \in PlaneXs, y \in PlaneXs :
        /\ call = NoCall
        /\ call' = PackageCall("katpoint.plane_to_sphere", F, cs, target, ts, <<x>>, <<y>>,
                       katpoint_plane_to_sphere(AnAntenna, target, <<x>>, <<y>>, ts, F, cs))
        /\ prev' = NoCall
        /\ UNCHANGED params

MethodSphereToPlane ==
    \E F \in Families, cs \in CoordSystems, target \in PackageTargets,
       ts \in PackageTimestamps, az \in Lons, el \in Lats :
        /\ call = NoCall
        /\ call' = PackageCall("Target.sphere_to_plane", F, cs, target, ts, <<az>>, <<el>>,
                       Target_sphere_to_plane(target, <<az>>, <<el>>, ts, AnAntenna, F, cs))
        /\ prev' = NoCall
        /\ UNCHANGED params

\* a caller deprojects the plane point the method returned
MethodPlaneToSphere ==
    /\ call.op = "Target.sphere_to_plane"
    /\ call.res.raised = ""
    /\ call' = PackageCall("Target.plane_to_sphere", call.F, call.coord_system,
                   call.target, call.timestamps, call.res.res.a, call.res.res.b,
                   Target_plane_to_sphere(call.target, call.res.res.a, call.res.res.b,
                                          call.timestamps, AnAntenna, call.F,
                                          call.coord_system))
    /\ prev' = call
    /\ UNCHANGED params

NextPackage ==
    PackageSphereToPlane \/ PackagePlaneToSphere \/ MethodSphereToPlane \/ MethodPlaneToSphere

SpecPackage == InitProj /\ [][NextPackage]_vars

IsPackageCall == call.op \in {"katpoint.sphere_to_plane", "katpoint.plane_to_sphere"}

\* C22: katpoint.sphere_to_plane and katpoint.plane_to_sphere both hand the
\* engine the reference direction of the coord_system tag, the target's
\* (ra, dec) for 'radec' and its (az, el) otherwise, for every
\* projection_type, so that the one undoes the other
C22_SameReference ==
    IsPackageCall =>
        /\ call.res.raised \notin
               {"AttributeError", "TypeError", "ValueError", "UnboundLocalError"}
        /\ call.res.ref = Reference(call.target, call.coord_system)

\* the Target methods of the same names do use the reference of the tag
MethodsSameReference ==
    call.op \in {"Target.sphere_to_plane", "Target.plane_to_sphere"} =>
        call.res.ref = Reference(call.target, call.coord_system)

---------------------------------------------------------------------------
(* The residual that PointingModel.reverse reports when it gives up *)

\* one halving of the bracket p = <<lo, hi>> of the square root of n
root_step(n, p) ==
    IF p[2] - p[1] <= 1 THEN p
    ELSE IF ((p[1] + p[2]) \div 2) * ((p[1] + p[2]) \div 2) <= n
         THEN <<(p[1] + p[2]) \div 2, p[2]>>
         ELSE <<p[1], (p[1] + p[2]) \div 2>>

root_steps(n, p) == root_step(n, root_step(n, root_step(n, root_step(n, p))))

\* the largest s with s * s <= n, for n < 2^31: sixteen halvings of <<0, 2^16>>
root(n) == root_steps(n, root_steps(n, root_steps(n, root_steps(n, <<0, 46341>>))))[1]

\* the hypotenuse of c and b2, in mas, to five digits
hypot(c, b2) ==
    LET s == (Max(Abs(c), Abs(b2)) \div 30000) + 1
    IN  s * root((c \div s) * (c \div s) + (b2 \div s) * (b2 \div s))

\* sky_error = np.sqrt((np.cos(el) * b1) ** 2 + b2 ** 2) of the estimate
\* (az, el), for (b1, b2) = (pointed_az, pointed_el) - apply(az, el)
sky_error(P, pointed_az, pointed_el, az, el) ==
    np_asarray([i \in DOMAIN az |->
        hypot(MulH(pointed_az[i] - apply(P, az[i], el[i]).az, CosH(el[i])),
              pointed_el[i] - apply(P, az[i], el[i]).el)])

\* np.argmax: the first index of the largest element
argmax(a) == CHOOSE i \in DOMAIN a :
                 /\ \A j \in DOMAIN a : a[j] <= a[i]
                 /\ \A j \in 1..(i - 1) : a[j] < a[i]

\* the warning of the else branch of the loop: sky_error is the one the
\* last pass of the body computed, from the estimate s that pass began with
reverse_warning(P, s) ==
    LET e == sky_error(P, s.pointed_az, s.pointed_el, s.az, s.el)
    IN  [iterations |-> s.iteration + 1,
         max_error |-> e[argmax(e)],
         max_az |-> s.pointed_az[argmax(e)],
         max_el |-> s.pointed_el[argmax(e)]]

\* the loop of the call gave up: its last state, and the state in which
\* its last Newton pass began
GaveUp == InLoop /\ Loop.status = "returned" /\ Loop.warned

LastBody == call.passes[call.pass - 2]

\* the largest sky error of the estimate the call returns
ReturnedError ==
    LET e == sky_error(params, Loop.pointed_az, Loop.pointed_el, call.res.az, call.res.el)
    IN  e[argmax(e)]

\* C23: when PointingModel.reverse gives up after its 30 passes, the
\* residual in its warning is the sky error of the (az, el) it returns
C23_ResidualOfReturned ==
    GaveUp => reverse_warning(params, LastBody).max_error = ReturnedError

\* the warning counts the 30 passes and names a pointed direction of the call
WarningOfLastBody ==
    GaveUp =>
        /\ LastBody.iteration = NewtonSteps - 1
        /\ reverse_warning(params, LastBody).iterations = NewtonSteps
        /\ \E i \in DOMAIN Loop.pointed_az :
               /\ reverse_warning(params, LastBody).max_az = Loop.pointed_az[i]
               /\ reverse_warning(params, LastBody).max_el = Loop.pointed_el[i]

---------------------------------------------------------------------------
(* refraction_offset_vlbi beyond the elevations it clips to *)

\* elevations below, at and above the clip at 1 and at 90 degrees
ClipEls ==
    {-DEG90, -DEG, 0, DEG \div 2, DEG - 1, DEG, DEG + 1, 45 * DEG,
     DEG90 - 1, DEG90, DEG90 + 1, 91 * DEG, 2 * DEG90}

\* a caller asks for the offset of an elevation
OffsetVlbi ==
    \E el \in ClipEls, w \in WeatherSet :
        /\ call = NoCall
        /\ call' = RCCall("refraction_offset_vlbi", <<el>>, <<w>>, FALSE,
                          refraction_offset_vlbi(<<el>>, <<w>>))
        /\ prev' = NoCall
        /\ UNCHANGED params

\* and then for the offset of an end of the clipped range in the same weather
OffsetAtEnd ==
    \E el \in {DEG, DEG90} :
        /\ call.op = "refraction_offset_vlbi"
        /\ prev = NoCall
        /\ call' = RCCall("refraction_offset_vlbi", <<el>>, call.w, FALSE,
                          refraction_offset_vlbi(<<el>>, call.w))
        /\ prev' = call
        /\ UNCHANGED params

NextClip == OffsetVlbi \/ OffsetAtEnd

SpecClip == InitProj /\ [][NextClip]_vars

\* an offset that is no IEEE infinity
IsFinite(x) == Abs(x) < HUGE

\* C24: in the same weather refraction_offset_vlbi of an elevation below
\* 1 degree (0 and below included) is its value at 1 degree and that of an
\* elevation above 90 degrees is its value at 90 degrees, and it is finite
\* at every elevation
C24_ClippedOffset ==
    call.op = "refraction_offset_vlbi" =>
        /\ IsFinite(call.res[1])
        /\ (prev # NoCall /\ prev.el[1] < DEG /\ call.el[1] = DEG) => call.res = prev.res
        /\ (prev # NoCall /\ prev.el[1] > DEG90 /\ call.el[1] = DEG90) => call.res = prev.res

\* the offset of an elevation below the horizon, then that of 1 degree
C24_Witness ==
    /\ call.op = "refraction_offset_vlbi"
    /\ prev # NoCall
    /\ prev.el[1] < 0
    /\ call.el[1] = DEG
    /\ call.res = prev.res
    /\ call.res[1] > 0

\* the offset of an elevation beyond the zenith, then that of 90 degrees
AboveZenith ==
    /\ call.op = "refraction_offset_vlbi"
    /\ prev # NoCall
    /\ prev.el[1] > DEG90
    /\ call.el[1] = DEG90
    /\ call.res = prev.res

---------------------------------------------------------------------------
(* The secant of PointingModel.offset and PointingModel._jacobian *)

\* deg2rad(6. / 60.), in units of 1/HS
SixArcmin == RadH(6 * 60 * ARCSEC)

\* elevations at, around and away from the zenith and the nadir, on either
\* side of the clamp at 6 arcmin
SecEls ==
    {0, 45 * DEG, 89 * DEG, DEG90 - 7 * 60 * ARCSEC, DEG90 - 6 * 60 * ARCSEC,
     DEG90 - 3 * 60 * ARCSEC, DEG90 - ARCSEC, DEG90, DEG90 + ARCSEC,
     DEG90 + 3 * 60 * ARCSEC, DEG90 + 7 * 60 * ARCSEC, 135 * DEG, 2 * DEG90,
     -DEG90, -DEG90 + 3 * 60 * ARCSEC, -45 * DEG}

SecAzs == {-100 * DEG, 0, 30 * DEG}

SecCall(op, az, el, res) ==
    [op |-> op, az |-> az, el |-> el, cos_el |-> Trig(az, el).cos_el,
     sec_el |-> SecEl(Trig(az, el)), tan_el |-> TanEl(Trig(az, el), SecEl(Trig(az, el))),
     res |-> res]

\* a caller asks for the offset of one direction
OffsetAt ==
    \E az \in SecAzs, el \in SecEls :
        /\ call = NoCall
        /\ call' = SecCall("PointingModel.offset", az, el, offset(params, az, el))
        /\ prev' = NoCall
        /\ UNCHANGED params

\* the Newton pass of reverse asks for the Jacobian of the same direction
JacobianAt ==
    /\ call.op = "PointingModel.offset"
    /\ call' = SecCall("PointingModel._jacobian", call.az, call.el,
                       jacobian(params, call.az, call.el))
    /\ prev' = call
    /\ UNCHANGED params

NextSec == OffsetAt \/ JacobianAt

SpecSec == InitPM /\ [][NextSec]_vars

IsSecCall == call.op \in {"PointingModel.offset", "PointingModel._jacobian"}

\* a product of a secant and a cosine is 1 to 1e-6
SecTol == HS \div TS

\* sec_el has magnitude 1 / max(|cos_el|, 6 arcmin)
ClampedMagnitude ==
    Abs(Mul(Abs(call.sec_el), Max(Abs(call.cos_el), SixArcmin)) - HS) <= SecTol

\* the sum of the magnitudes of the terms of delta_az under the clamp, in
\* arcsec
AzBound ==
    LET p == [i \in 1..num_params |-> (Abs(params[i]) \div ARCSEC) + 1]
    IN  p[1] + 574 * (p[3] + p[4] + p[5] + p[6]) + 4 * p[12]
        + p[13] + p[14] + p[17] + p[18]

\* delta_az is bounded, and delta_el is what its terms give whatever the
\* secant and the tangent: the cosine in it is cos_el itself
OffsetBounded ==
    call.op = "PointingModel.offset" =>
        /\ Abs(call.res.delta_az) \div ARCSEC <= AzBound
        /\ call.res.delta_el
               = offset_terms(params, call.az, call.el, Trig(call.az, call.el),
                              0, 0).delta_el
        /\ call.res = offset_sec(params, call.az, call.el, Trig(call.az, call.el),
                                 call.sec_el)

ZeroCosine == IsSecCall /\ call.cos_el = 0

---------------------------------------------------------------------------
(* The reference direction and the origin of the plane *)

\* a scalar call with a reference latitude within +-90 degrees
AtReference ==
    /\ call.op = "sphere_to_plane"
    /\ Abs(call.el0) <= DEG90
    /\ call.a = <<call.az0>>
    /\ call.b = <<call.el0>>

AtOrigin ==
    /\ call.op = "plane_to_sphere"
    /\ Abs(call.el0) <= DEG90
    /\ call.a = <<0>>
    /\ call.b = <<0>>

\* C26: in each of the four families and for every reference latitude
\* within +-90 degrees, the poles included, sphere_to_plane of the
\* reference direction is the origin (0, 0) and plane_to_sphere of the
\* origin is the reference direction, and neither raises: the scale of ARC
\* is 1 at theta = 0 and at r = 0.  (The direction is the reference to the
\* resolution of the model; the azimuth is the reference azimuth itself.)
C26_ReferenceIsOrigin ==
    /\ AtReference =>
           (call.res.raised = "" /\ call.res.a = <<0>> /\ call.res.b = <<0>>)
    /\ AtOrigin =>
           /\ call.res.raised = ""
           /\ SameDirection(call.res.a[1], call.res.b[1], call.az0, call.el0)
           /\ call.res.a = <<call.az0>>

\* ARC at a pole: the separation is 0, the branch theta == 0.0 is taken and
\* the origin is returned
C26_Witness ==
    /\ AtReference
    /\ call.F = "ARC"
    /\ call.el0 = DEG90
    /\ ArcCos(Clip(CosTheta(call), -TS, TS)) = 0
    /\ call.res.raised = ""
    /\ call.res.a = <<0>>
    /\ call.res.b = <<0>>

\* the origin of ARC deprojected at the other pole
OriginAtPole ==
    /\ AtOrigin
    /\ call.F = "ARC"
    /\ call.el0 = -DEG90
    /\ call.res.a = <<call.az0>>
    /\ call.res.b = <<-DEG90>>

---------------------------------------------------------------------------
(* The range of the elevations that the entry points return *)

\* elevations of the range [-90, 90] degrees, its ends included
RangeEls == {-DEG90, -89 * DEG, -45 * DEG, 0, 45 * DEG, 89 * DEG, DEG90}

RangeAzs == {-100 * DEG, 30 * DEG}

WithinRange(el) == \A i \in DOMAIN el : Abs(el[i]) <= DEG90

\* an entry point was given the directions (az, el), or the elevations el,
\* and returned the elevations out (with the azimuths out_az)
RangeCall(op, az, el, raised, out_az, out) ==
    [op |-> op, az |-> az, el |-> el, raised |-> raised, out_az |-> out_az, out |-> out]

RangeProjected(F, el0, res) ==
    RangeCall("plane_to_sphere_" \o F, <<>>, <<el0>>, res.raised, res.a, res.b)

RangePlaneToSphere ==
    \E F \in Families, el0 \in RangeEls, x \in PlaneXs, y \in PlaneXs :
        /\ call = NoCall
        /\ call' = RangeProjected(F, el0, plane_to_sphere(F, RefLon, el0, <<x>>, <<y>>))
        /\ prev' = NoCall
        /\ UNCHANGED params

RangeApplied(az, el, res) ==
    RangeCall("PointingModel.apply", <<az>>, <<el>>, "",
              np_asarray(res.az), np_asarray(res.el))

RangeApply ==
    \E az \in RangeAzs, el \in RangeEls :
        /\ call = NoCall
        /\ call' = RangeApplied(az, el, PointingModel_apply(params, <<az>>, <<el>>))
        /\ prev' = NoCall
        /\ UNCHANGED params

RangeReversed(az, el, res) ==
    RangeCall("PointingModel.reverse", az, el, "", res.az, res.el)

\* a caller undoes a correction that stayed within the range
RangeReverse ==
    /\ call.op = "PointingModel.apply"
    /\ WithinRange(call.out)
    /\ Abs(call.el[1]) < DEG90
    /\ call' = RangeReversed(call.out_az, call.out,
                             PointingModel_reverse(params, call.out_az, call.out))
    /\ prev' = call
    /\ UNCHANGED params

RangeRefractionApply ==
    \E el \in RangeEls, w \in WeatherSet :
        /\ call = NoCall
        /\ call' = RangeCall("RefractionCorrection.apply", <<w>>, <<el>>, "", <<>>,
                             RefractionCorrection_apply(<<el>>, <<w>>))
        /\ prev' = NoCall
        /\ UNCHANGED params

\* a caller asks for the elevation that is refracted to an end or the
\* middle of the range
RangeRefractionReverse ==
    \E el \in {-DEG90, 0, DEG90}, w \in WeatherSet :
        /\ call = NoCall
        /\ call' = RangeCall("RefractionCorrection.reverse", <<w>>, <<el>>, "", <<>>,
                             RefractionCorrection_reverse(<<el>>, <<w>>, FALSE).el)
        /\ prev' = NoCall
        /\ UNCHANGED params

NextRange ==
    \/ RangePlaneToSphere
    \/ RangeApply
    \/ RangeReverse
    \/ RangeRefractionApply
    \/ RangeRefractionReverse

SpecRange == InitPM /\ [][NextRange]_vars

IsRangeCall == call # NoCall /\ WithinRange(call.el) /\ call.raised = ""

\* C27: an entry point given elevations within [-90, 90] degrees returns
\* elevations within [-90, 90] degrees: plane_to_sphere of each family,
\* PointingModel.apply and reverse, RefractionCorrection.apply and reverse
C27_ElevationsInRange == IsRangeCall => WithinRange(call.out)

\* the entry points that do keep the range: the four plane_to_sphere and
\* RefractionCorrection.apply
KeepRange ==
    (IsRangeCall /\ call.op \notin {"PointingModel.apply", "PointingModel.reverse",
                                    "RefractionCorrection.reverse"})
        => WithinRange(call.out)

---------------------------------------------------------------------------
(* The number of parameters of an instance through its life *)

\* the number of calls a caller makes on its instance
MaxCalls == 3

\* the numbers of values a caller constructs a model from
CountLengths == {0, num_params - 1, num_params, num_params + MaxExtra}

\* the direction of the calls
CountAz == <<30 * DEG>>
CountEl == <<45 * DEG>>

\* PointingModel(params, strict) for params None, a list or a string
CountInit(source, k, n, strict) ==
    CASE source = "None" -> [raised |-> "", warned |-> FALSE,
                             params |-> np_asarray(Zeros)]
      [] source = "list" -> init_params(Values(k, n, 2), strict)
      [] source = "string" -> init_string(Join(Tokens(k, n, 2), " "), strict, "raise")

\* the call made, what it raised, the lengths of the vectors it returned
\* and the number of calls made on the instance
CountCall(op, step, raised, lengths) ==
    [op |-> op, step |-> step, raised |-> raised, lengths |-> lengths]

Constructed(source, n, strict, res) ==
    [op |-> "PointingModel(" \o source \o ")", step |-> 0, raised |-> res.raised,
     lengths |-> <<Len(res.params)>>, n |-> n, strict |-> strict]

\* a caller constructs an instance; a constructor that raises leaves none
CountConstruct ==
    \E source \in {"None", "list", "string"}, k \in 1..NumModels, n \in CountLengths,
       strict \in BOOLEAN :
        /\ call = NoCall
        /\ source = "None" => (k = 1 /\ n = 0)
        /\ call' = Constructed(source, n, strict, CountInit(source, k, n, strict))
        /\ params' = IF CountInit(source, k, n, strict).raised = ""
                     THEN np_asarray(CountInit(source, k, n, strict).params)
                     ELSE params
        /\ prev' = NoCall

HasInstance ==
    /\ call # NoCall
    /\ call.step < MaxCalls
    /\ call.op \in {"PointingModel(None)", "PointingModel(list)", "PointingModel(string)"}
           => call.raised = ""

CountOffset ==
    /\ HasInstance
    /\ call' = CountCall("offset", call.step + 1, "",
                         <<Len(PointingModel_offset(params, CountAz, CountEl))>>)
    /\ prev' = call
    /\ UNCHANGED params

CountApply ==
    /\ HasInstance
    /\ call' = CountCall("apply", call.step + 1, "",
                         <<Len(PointingModel_apply(params, CountAz, CountEl).el)>>)
    /\ prev' = call
    /\ UNCHANGED params

CountReverse ==
    /\ HasInstance
    /\ call' = CountCall("reverse", call.step + 1, "",
                         <<Len(PointingModel_reverse(params, CountAz, CountEl).el)>>)
    /\ prev' = call
    /\ UNCHANGED params

CountFitted(step, res) ==
    CountCall("fit", step, res.raised, <<Len(res.params), Len(res.sigma_params)>>)

\* the caller fits the instance to the offsets of model 1 at two directions
CountFit ==
    \E enabled_params \in {Indices(<<1, 7>>), Indices(<<>>), Indices(<<7, 2>>)} :
        /\ HasInstance
        /\ call' = CountFitted(call.step + 1,
                       fit(params, SampleAz(2), SampleEl(2),
                           DeltaAz(ModelParams(1), SampleAz(2), SampleEl(2)),
                           DeltaEl(ModelParams(1), SampleAz(2), SampleEl(2)),
                           -1, -1, enabled_params, "nan"))
        /\ params' = fit(params, SampleAz(2), SampleEl(2),
                         DeltaAz(ModelParams(1), SampleAz(2), SampleEl(2)),
                         DeltaEl(ModelParams(1), SampleAz(2), SampleEl(2)),
                         -1, -1, enabled_params, "nan").params
        /\ prev' = call

NextCount == CountConstruct \/ CountOffset \/ CountApply \/ CountReverse \/ CountFit

SpecCount == InitProj /\ [][NextCount]_vars

\* C28: a PointingModel has exactly 22 parameters from its construction on
\* (strict or not; from None, a list or a string), through every offset,
\* apply, reverse and fit, and fit returns 22 parameters and 22 standard
\* errors
C28_TwentyTwo ==
    /\ Len(params) = num_params
    /\ (call # NoCall /\ call.step = 0 /\ call.raised = "")
           => call.lengths = <<num_params>>
    /\ (call # NoCall /\ call.op = "fit" /\ call.raised = "")
           => call.lengths = <<num_params, num_params>>

\* an instance made of more than 22 values, not strict, then fitted
C28_Witness ==
    /\ call # NoCall
    /\ call.op = "fit"
    /\ call.step = 1
    /\ call.lengths = <<num_params, num_params>>
    /\ prev.op = "PointingModel(list)"
    /\ prev.n > num_params
    /\ ~prev.strict
    /\ Len(params) = num_params
    /\ \E i \in DOMAIN params : params[i] # 0
---------------------------------------------------------------------------
(* The correction models as functions of their arguments and parameters *)

\* the operations of the two correction models that compute a correction
FrameOps ==
    {"PointingModel.offset", "PointingModel.apply", "PointingModel._jacobian",
     "PointingModel.reverse", "RefractionCorrection.offset",
     "RefractionCorrection.apply", "RefractionCorrection.reverse"}

\* the arguments of the callers: a direction and the weather
FrameArgs ==
    {[az |-> <<30 * DEG>>, el |-> <<45 * DEG>>,
      w |-> <<[temperature |-> 40, pressure |-> 1100, humidity |-> 95]>>],
     [az |-> <<-100 * DEG>>, el |-> <<10 * DEG>>,
      w |-> <<[temperature |-> -10, pressure |-> 900, humidity |-> 5]>>]}

\* what an operation returns on the instance with parameters P, or on the
\* refraction correction rc
FrameResult(op, P, rc, a) ==
    CASE op = "PointingModel.offset" -> PointingModel_offset(P, a.az, a.el)
      [] op = "PointingModel.apply" ->
             [az |-> np_asarray(PointingModel_apply(P, a.az, a.el).az),
              el |-> np_asarray(PointingModel_apply(P, a.az, a.el).el)]
      [] op = "PointingModel._jacobian" -> jacobian(P, a.az[1], a.el[1])
      [] op = "PointingModel.reverse" -> PointingModel_reverse(P, a.az, a.el)
      [] op = "RefractionCorrection.offset" -> self_offset(rc, a.el, a.w)
      [] op = "RefractionCorrection.apply" -> RefractionCorrection_apply(a.el, a.w)
      [] op = "RefractionCorrection.reverse" ->
             RefractionCorrection_reverse(a.el, a.w, FALSE)

\* a caller constructs the refraction correction it uses next to its
\* pointing model
FrameConstruct ==
    /\ call = NoCall
    /\ call' = [op |-> "RefractionCorrection()", step |-> 0,
                rc |-> RefractionCorrection_default,
                repeats |-> FALSE, between |-> FALSE]
    /\ prev' = NoCall
    /\ UNCHANGED params

\* the call op(a) on the two instances: the instances before and after it,
\* what it returned, whether it repeats the first call made on them and
\* whether another call was made in between; no operation assigns to self
FrameCall(op, a) ==
    /\ call # NoCall
    /\ call.step < MaxCalls
    /\ call' = [op |-> op, args |-> a, step |-> call.step + 1,
                res |-> FrameResult(op, params, call.rc, a),
                rc_before |-> call.rc, rc |-> call.rc,
                params_before |-> params,
                repeats |-> prev # NoCall /\ prev.op = op /\ prev.args = a,
                between |-> \/ call.between
                            \/ prev # NoCall /\ (prev.op # op \/ prev.args # a)]
    /\ prev' = IF prev = NoCall THEN call' ELSE prev
    /\ params' = params

FrameOffset == \E a \in FrameArgs : FrameCall("PointingModel.offset", a)

FrameApply == \E a \in FrameArgs : FrameCall("PointingModel.apply", a)

FrameJacobian == \E a \in FrameArgs : FrameCall("PointingModel._jacobian", a)

FrameReverse == \E a \in FrameArgs : FrameCall("PointingModel.reverse", a)

FrameRefractionOffset == \E a \in FrameArgs : FrameCall("RefractionCorrection.offset", a)

FrameRefractionApply == \E a \in FrameArgs : FrameCall("RefractionCorrection.apply", a)

FrameRefractionReverse == \E a \in FrameArgs : FrameCall("RefractionCorrection.reverse", a)

NextFrame ==
    \/ FrameConstruct
    \/ FrameOffset
    \/ FrameApply
    \/ FrameJacobian
    \/ FrameReverse
    \/ FrameRefractionOffset
    \/ FrameRefractionApply
    \/ FrameRefractionReverse

SpecFrame == InitPM /\ [][NextFrame]_vars

IsFrameCall == call # NoCall /\ call.op \in FrameOps

RefractionRepeated ==
    /\ IsFrameCall
    /\ call.op = "RefractionCorrection.reverse"
    /\ call.repeats
    /\ call.between
---------------------------------------------------------------------------
(* CorrelatorDelays: the cache of the delays per timestamp *)

\* the targets and the timestamps of the callers
DelayTargets == {"A", "B"}
DelayTimes == {10, 20, 30}

\* a next_timestamp for which "not next_timestamp" holds (None by default)
NoTimestamp == 0

\* the antennas of the callers, with the delay parameters of each in ps
DelayAnts ==
    <<[name |-> "ant1", delay_params |-> <<0, 0, 0, 0, 100, 200>>],
      [name |-> "ant2", delay_params |-> <<30000, -40000, 1000, 500, 150, 250>>]>>

\* target.azel(timestamp, self.ref_ant): the targets move across the sky
target_azel(target, timestamp) ==
    IF target = "A" THEN [az |-> (30 + timestamp) * DEG, el |-> 45 * DEG]
    ELSE [az |-> -60 * DEG, el |-> (20 + timestamp) * DEG]

\* the east, north and up components of a direction, in units of 1/HS
azel_to_enu(az, el) ==
    <<MulH(SinH(az), CosH(el)), MulH(CosH(az), CosH(el)), SinH(el)>>

\* design_mat: the rows of the H and of the V input
design_mat(d, cos_el) ==
    <<<<-d[1], -d[2], -d[3], cos_el, HS, 0>>, <<-d[1], -d[2], -d[3], cos_el, 0, HS>>>>

RowDot(a, b) ==
    MulH(a[1], b[1]) + MulH(a[2], b[2]) + MulH(a[3], b[3]) + MulH(a[4], b[4])
        + MulH(a[5], b[5]) + MulH(a[6], b[6])

\* np.dot(self._params, design_mat.T).ravel()
RECURSIVE dot_ravel(_, _)
dot_ravel(rows, m) ==
    IF rows = <<>> THEN <<>>
    ELSE <<RowDot(rows[1], m[1]), RowDot(rows[1], m[2])>> \o dot_ravel(Tail(rows), m)

\* CorrelatorDelays.__init__: "if not self._params" raises ValueError for
\* an array of more than one element and is true for the empty array
CorrelatorDelays_init(ants) ==
    IF 6 * Len(ants) > 1
    THEN [raised |-> "ValueError", inputs |-> <<>>, _params |-> <<>>, _cache |-> <<>>,
          max_delay |-> 0]
    ELSE [raised |-> "", inputs |-> <<>>, _params |-> <<>>, _cache |-> <<>>,
          max_delay |-> 0]

\* CorrelatorDelays._calculate_delays: a new array, told apart from the
\* arrays of equal value by the call that made it
_calculate_delays(self, target, timestamp) ==
    [of |-> target, at |-> timestamp,
     value |-> dot_ravel(self._params,
                   design_mat(azel_to_enu(target_azel(target, timestamp).az,
                                          target_azel(target, timestamp).el),
                              CosH(target_azel(target, timestamp).el)))]

\* self._cache as a function of the timestamps it holds
CacheTimes(self) == DOMAIN self._cache

\* CorrelatorDelays._cached_delays: the entry of the timestamp is popped
\* and returned, or the delays are calculated and stored
_cached_delays(self, target, timestamp) ==
    IF timestamp \in CacheTimes(self)
    THEN [self |-> [self EXCEPT !._cache =
                       [t \in CacheTimes(self) \ {timestamp} |-> self._cache[t]]],
          delays |-> self._cache[timestamp]]
    ELSE [self |-> [self EXCEPT !._cache =
                       [t \in CacheTimes(self) \cup {timestamp} |->
                           IF t = timestamp THEN _calculate_delays(self, target, timestamp)
                           ELSE self._cache[t]]],
          delays |-> _calculate_delays(self, target, timestamp)]

\* the delay corrections max_delay - delays of the inputs
delay_corrections(self, delays) ==
    [i \in DOMAIN delays.value |-> self.max_delay - delays.value[i]]

\* CorrelatorDelays.corrections after its first _cached_delays: the
\* instance it leaves, the delays it used and the delay corrections
corrections_next(self, target, timestamp, next_timestamp, first) ==
    IF next_timestamp = NoTimestamp
    THEN [self |-> first.self, used |-> <<first.delays>>,
          res |-> <<delay_corrections(self, first.delays)>>]
    ELSE [self |-> _cached_delays(first.self, target, next_timestamp).self,
          used |-> <<first.delays,
                     _cached_delays(first.self, target, next_timestamp).delays>>,
          res |-> <<delay_corrections(self, first.delays),
                    delay_corrections(self,
                        _cached_delays(first.self, target, next_timestamp).delays)>>]

\* CorrelatorDelays.corrections(target, timestamp, next_timestamp)
corrections(self, target, timestamp, next_timestamp) ==
    corrections_next(self, target, timestamp, next_timestamp,
                     _cached_delays(self, target, timestamp))

\* a caller constructs the delays of an array of no, one or two antennas;
\* a constructor that raises leaves no instance
DelayConstruct ==
    \E n \in 0..Len(DelayAnts) :
        /\ call = NoCall
        /\ call' = [op |-> "CorrelatorDelays", n |-> n,
                    raised |-> CorrelatorDelays_init(SubSeq(DelayAnts, 1, n)).raised,
                    self |-> CorrelatorDelays_init(SubSeq(DelayAnts, 1, n))]
        /\ prev' = NoCall
        /\ UNCHANGED params

\* a caller asks for the corrections of a target at a timestamp, with or
\* without the next timestamp
DelayCorrections ==
    \E target \in DelayTargets, timestamp \in DelayTimes,
       next_timestamp \in DelayTimes \cup {NoTimestamp} :
        /\ call # NoCall
        /\ call.raised = ""
        /\ call' = [op |-> "corrections", raised |-> "", target |-> target,
                    timestamp |-> timestamp, next_timestamp |-> next_timestamp,
                    self |-> corrections(call.self, target, timestamp, next_timestamp).self,
                    used |-> corrections(call.self, target, timestamp, next_timestamp).used,
                    res |-> corrections(call.self, target, timestamp, next_timestamp).res]
        /\ prev' = call
        /\ UNCHANGED params

NextDelay == DelayConstruct \/ DelayCorrections

SpecDelay == InitProj /\ [][NextDelay]_vars

IsCorrections == call # NoCall /\ call.op = "corrections"

\* the timestamps of the delays a call uses
UsedTimes == IF call.next_timestamp = NoTimestamp THEN <<call.timestamp>>
             ELSE <<call.timestamp, call.next_timestamp>>

\* C30: the delays a call of corrections uses for a timestamp are
\* _calculate_delays of the target passed to the call at that timestamp,
\* never a cache entry made for another target at that timestamp
C30_DelaysOfTarget ==
    IsCorrections =>
        \A i \in DOMAIN call.used :
            call.used[i] = _calculate_delays(prev.self, call.target, UsedTimes[i])

\* the delays used have the value of the delays of the target passed: the
\* instances the constructor admits have no antennas
ValuesOfTarget ==
    IsCorrections =>
        \A i \in DOMAIN call.used :
            call.used[i].value =
                _calculate_delays(prev.self, call.target, UsedTimes[i]).value

\* the delays used were calculated at the timestamp they are used for
DelaysOfTimestamp ==
    IsCorrections =>
        \A i \in DOMAIN call.used : call.used[i].at = UsedTimes[i]

=============================================================================
